---- MODULE Spec2Model ----
(***************************************************************************)
(* Model of the research pipeline of app/orchestrator/coordinator.py:      *)
(* ResearchCoordinator.initialize, conduct_research and the                *)
(* produce -> critique -> revise loop, with the evidence gathering of      *)
(* app/agents/researcher.py, the generation backend of app/llm/client.py   *)
(* and the task store of app/database/connection.py.                       *)
(*                                                                         *)
(* One action per await point of conduct_research.  Scores are floats in   *)
(* the code; the model keeps them in tenths (7.0 is 70).                   *)
(***************************************************************************)
EXTENDS Integers, Sequences, FiniteSets, TLC

VARIABLES
    pc,               \* position of the run inside initialize / conduct_research
    llm_initialized,  \* GroqClient._initialized
    db_initialized,   \* SupabaseManager._initialized
    dbUp,             \* environment: the store answers (TRUE) or every operation fails
    db,               \* the store's tables, as far as one task is concerned
    query,            \* the ResearchQuery passed to conduct_research
    task,             \* the ResearchTask object of the run
    research_data,    \* ResearcherAgent._gather_research_data's bundle
    sessions,         \* the aiohttp session of each tool: "none", "open", "closed"
    report,           \* the report returned by the agent call in flight
    current_report,   \* local current_report of conduct_research / the loop
    retry_count,      \* local retry_count of _self_correction_loop
    feedback,         \* local feedback of _self_correction_loop
    exc,              \* the exception caught by conduct_research's except clause
    raised,           \* the exception conduct_research raised to its caller
    statusWrites,     \* every status handed to the store, in order
    messages,         \* every message handed to log_agent_message, in order
    produced,         \* every report returned by the producer and the reviser, in order
    critiques,        \* every overall_score returned by the critic, in order
    revise_calls,     \* number of _revise_report calls that returned
    revise_started,   \* number of _revise_report calls that were started
    save_report_calls,\* number of save_report calls
    web_outcomes,     \* what each web query of the gathering in progress did
    gather_failed,    \* an exception was raised inside _gather_research_data
    all_sources_failed,\* every evidence lookup of the run errored
    queried,          \* the evidence sources whose lookup the gathering has called
    critic_kinds,     \* what each structured result the critic used was, in order
    response_text,    \* generate_structured_response: the backend's response text
    structured,       \* generate_structured_response: what the call returned or raised
    batch,            \* multi_query_search: the queries, their searches, the result
    runs,             \* two conduct_research calls on the one coordinator
    shared_tools,     \* the tools of the coordinator's researcher, as those calls use them
    init_outcomes,    \* what the two dependencies' initialize calls did
    abandoned,        \* the caller has given the task up
    models,           \* a data model under construction, serialisation or reconstruction
    route             \* one POST /research request in the API

vars == <<pc, llm_initialized, db_initialized, dbUp, db, query, task,
          research_data, sessions, report, current_report, retry_count,
          feedback, exc, raised, statusWrites, messages, produced, critiques,
          revise_calls, revise_started, save_report_calls, web_outcomes,
          gather_failed, all_sources_failed, queried, critic_kinds,
          init_outcomes, response_text, structured, batch, runs, shared_tools,
          abandoned, models, route>>

\* the variables of one run of the coordinator
runVars == <<pc, llm_initialized, db_initialized, dbUp, db, query, task,
             research_data, sessions, report, current_report, retry_count,
             feedback, exc, raised, statusWrites, messages, produced, critiques,
             revise_calls, revise_started, save_report_calls, web_outcomes,
             gather_failed, all_sources_failed, queried, critic_kinds,
             init_outcomes>>

\* the variables of the single-function and two-run specifications
standalone == <<response_text, structured, batch, runs, shared_tools,
                abandoned, models, route>>

-----------------------------------------------------------------------------
(* Bounds of the inputs *)

MaxSubtopics == 1

SubtopicNames == <<"s1", "s2", "s3">>

Topics == {"AI"}

(* Program constants *)

MaxRetries == 3

MinQualityScore == 70

DefaultScore == 50

MaxScore == 100

DefaultDepth == 3

LlmTimeout == 30

Depths == {DefaultDepth}

Queries ==
    {[topic |-> t, subtopics |-> SubSeq(SubtopicNames, 1, n), depth_level |-> d] :
        t \in Topics, n \in 0..MaxSubtopics, d \in Depths}

PENDING == "pending"
IN_PROGRESS == "in_progress"
REVIEWING == "reviewing"
REVISING == "revising"
COMPLETED == "completed"
FAILED == "failed"

NoQuery == [topic |-> "", subtopics |-> <<>>, depth_level |-> 0]
NoReport == [kind |-> "none"]
NoFeedback == [overall_score |-> -1]
NoError == [type |-> "none", text |-> "", step |-> "none", cause |-> "none"]
NoTask == [id |-> "none", query |-> NoQuery, status |-> "none",
           current_report |-> NoReport, feedback_history |-> <<>>,
           retry_count |-> 0, max_retries |-> 0]

EmptyBundle == [web_results |-> <<>>, wikipedia_results |-> <<>>, arxiv_results |-> <<>>]

\* before generate_structured_response, multi_query_search or a second run is called
NotCalled == [kind |-> "not_called"]
NoBatch == [queries |-> <<>>, outcomes |-> <<>>, called |-> FALSE,
            results_dict |-> [keys |-> <<>>, val |-> <<>>]]
NoRuns == <<>>
NoTools == <<>>
NotInitialized == [llm |-> "not_called", db |-> "not_called"]
NoModels == [kind |-> "none"]

\* no request has reached the API
NoRoute == [pc |-> "none"]

\* the store: the row of the task in research_tasks (its status and its
\* current_report column) and the records of the three other tables
EmptyDb == [status |-> "absent", row_report |-> NoReport, reports |-> <<>>,
            feedback |-> <<>>, messages |-> <<>>]

-----------------------------------------------------------------------------
(* Generation backend: GroqClient.generate_response *)

\* what the backend does with one request
LlmOutcomes == {"text", "timeout", "upstream"}

TimeoutText == "LLM request timed out after " \o ToString(LlmTimeout) \o " seconds"

\* generate_response without its asyncio.TimeoutError clause: the timeout falls
\* into "except Exception" and str(e) of a TimeoutError is empty
GenerateResponseError_NoTimeoutClause(outcome, step) ==
    [type |-> "RuntimeError", text |-> "Error generating LLM response: ",
     step |-> step, cause |-> outcome]

\* the error generate_response raises; cause records what the backend did
GenerateResponseError(outcome, step) ==
    IF outcome = "timeout"
    THEN [type |-> "TimeoutError", text |-> TimeoutText,
          step |-> step, cause |-> outcome]
    ELSE [type |-> "RuntimeError",
          text |-> "Error generating LLM response: upstream failure",
          step |-> step, cause |-> outcome]

\* pydantic rejects a field of the data block
ValidationError(step) ==
    [type |-> "ValidationError", text |-> "validation error", step |-> step,
     cause |-> "invalid"]

GenerationSteps == {"plan", "content", "critique", "revise"}

-----------------------------------------------------------------------------
(* Task store: SupabaseManager.  Every operation catches its own errors and *)
(* answers success or failure.                                              *)

\* create_task inserts task.model_dump(exclude_none=True): the new task's
\* current_report is None and is left out of the row
DbCreateTask(d) ==
    IF dbUp THEN [d EXCEPT !.status = PENDING, !.row_report = NoReport] ELSE d

DbUpdateTask(d, task_id, status) ==
    IF dbUp /\ task_id # "none" /\ d.status # "absent"
    THEN [d EXCEPT !.status = status] ELSE d

\* save_report inserts a record into research_reports
DbSaveReport(d, r) ==
    IF dbUp THEN [d EXCEPT !.reports = Append(@, r)] ELSE d

DbSaveFeedback(d, f) ==
    IF dbUp THEN [d EXCEPT !.feedback = Append(@, f)] ELSE d

DbLogAgentMessage(d, m) ==
    IF dbUp THEN [d EXCEPT !.messages = Append(@, m)] ELSE d

Msg(agent, text, arg) == [agent |-> agent, text |-> text, arg |-> arg]

\* a log that holds a message only when the store accepted it
LogAgentMessage_OnlyStored(agent, text, arg) ==
    /\ messages' = IF dbUp THEN Append(messages, Msg(agent, text, arg)) ELSE messages
    /\ db' = DbLogAgentMessage(db, Msg(agent, text, arg))

\* ResearchCoordinator._log_agent_message
LogAgentMessage(agent, text, arg) ==
    /\ messages' = Append(messages, Msg(agent, text, arg))
    /\ db' = DbLogAgentMessage(db, Msg(agent, text, arg))

\* _update_task_status and _log_agent_message raise when the store call failed
AfterStoreCall_Checked(ok, next) == IF ok THEN next ELSE "except_status"

\* _log_agent_message raises when the store refused the last message
AfterStoreCall_LastLogRaises(ok, next) ==
    IF ~ok /\ next = "returned" THEN "except_status" ELSE next

\* the statement after an awaited store call: the coordinator discards the
\* DatabaseOperationResult, so the run goes on whatever the store answered
AfterStoreCall(ok, next) == next

\* ResearchCoordinator.get_task_status: ResearchTask(**row) of the task's row
GetTaskStatus(d) ==
    IF d.status = "absent" THEN [found |-> FALSE]
    ELSE [found |-> TRUE, status |-> d.status, current_report |-> d.row_report]

\* GET /research/{task_id}/report
GetResearchReport(d) ==
    LET t == GetTaskStatus(d)
    IN  IF ~t.found THEN [code |-> 404, detail |-> "Task not found"]
        ELSE IF t.status # COMPLETED
        THEN [code |-> 400, detail |-> "Task not completed yet"]
        ELSE IF t.current_report = NoReport
        THEN [code |-> 404, detail |-> "No report available"]
        ELSE [code |-> 200, detail |-> "report"]

\* ResearchCoordinator._update_task_status
UpdateTaskStatus(status) ==
    /\ statusWrites' = Append(statusWrites, status)
    /\ db' = DbUpdateTask(db, task.id, status)

-----------------------------------------------------------------------------
(* Decisions of _self_correction_loop *)

\* while retry_count <= max_retries
LoopContinues_OffByOne(rc) == rc <= MaxRetries

\* while retry_count < max_retries - 1
LoopContinues_OneShort(rc) == rc < MaxRetries - 1

\* while retry_count > max_retries
LoopContinues_Inverted(rc) == rc > MaxRetries

\* while retry_count < max_retries
LoopContinues(rc) == rc < MaxRetries

\* if feedback.overall_score > self.min_quality_score
QualityAcceptable_Strict(score) == score > MinQualityScore

\* if feedback.overall_score >= self.min_quality_score + 1.0
QualityAcceptable_Shifted(score) == score >= MinQualityScore + 10

\* if feedback.overall_score >= self.min_quality_score
QualityAcceptable(score) == score >= MinQualityScore

\* retry_count += 2
NextRetryCount_Twice(rc) == rc + 2

\* retry_count += 1
NextRetryCount(rc) == rc + 1

-----------------------------------------------------------------------------
\* no run has started on the coordinator
IdleRun ==
    /\ pc = "start"
    /\ llm_initialized = FALSE
    /\ db_initialized = FALSE
    /\ dbUp = TRUE
    /\ db = EmptyDb
    /\ query = NoQuery
    /\ task = NoTask
    /\ research_data = EmptyBundle
    /\ sessions = [web |-> "none", wikipedia |-> "none", arxiv |-> "none"]
    /\ report = NoReport
    /\ current_report = NoReport
    /\ retry_count = 0
    /\ feedback = NoFeedback
    /\ exc = NoError
    /\ raised = NoError
    /\ statusWrites = <<>>
    /\ messages = <<>>
    /\ produced = <<>>
    /\ critiques = <<>>
    /\ revise_calls = 0
    /\ revise_started = 0
    /\ save_report_calls = 0
    /\ web_outcomes = <<>>
    /\ gather_failed = FALSE
    /\ all_sources_failed = FALSE
    /\ queried = {}
    /\ critic_kinds = <<>>
    /\ init_outcomes = NotInitialized

Init ==
    /\ IdleRun
    /\ response_text = <<>>
    /\ structured = NotCalled
    /\ batch = NoBatch
    /\ runs = NoRuns
    /\ shared_tools = NoTools
    /\ abandoned = FALSE
    /\ models = NoModels
    /\ route = NoRoute


-----------------------------------------------------------------------------
(* ResearchCoordinator.initialize *)

\* the value initialize returns for the two dependencies' answers
\* what a dependency's initialize() does: succeeds, reports failure, raises
InitOutcomes == {"ok", "fail", "raise"}

\* initialize without its try/except: an exception of a dependency leaves it
InitializeResult_NoExcept(llm, store) ==
    IF llm = "raise" \/ (llm = "ok" /\ store = "raise") THEN "raises"
    ELSE IF llm = "ok" /\ store = "ok" THEN "True" ELSE "False"

\* the value initialize returns for what the two dependencies did
InitializeResult(llm, store) == IF llm = "ok" /\ store = "ok" THEN "True" ELSE "False"

\* where the caller stands after initialize
AfterInitialize(result) ==
    IF result = "True" THEN "ready"
    ELSE IF result = "False" THEN "init_failed" ELSE "init_raised"

Initialize ==
    /\ pc = "start"
    /\ \E llm \in InitOutcomes, d \in InitOutcomes :
          \* the store is only initialised after the LLM client succeeded
          LET db_outcome == IF llm = "ok" THEN d ELSE "not_called"
          IN  /\ init_outcomes' = [llm |-> llm, db |-> db_outcome]
              /\ llm_initialized' = (llm = "ok")
              /\ db_initialized' = (db_outcome = "ok")
              /\ pc' = AfterInitialize(InitializeResult(llm, db_outcome))
    /\ UNCHANGED <<standalone, queried, critic_kinds,
                   dbUp, db, query, task, research_data, sessions, report,
                   current_report, retry_count, feedback, exc, raised, statusWrites, messages,
                   produced, critiques, revise_calls, revise_started,
                   save_report_calls, web_outcomes, gather_failed, all_sources_failed>>

\* the points of a run at which the store may become unreachable: before
\* the run starts, and after the status COMPLETED has been written
OutagePcs == {"ready", "completed_log"}

\* environment: the store is unreachable from then on; every operation then
\* returns DatabaseOperationResult(success=False)
DbOutage ==
    /\ pc \in OutagePcs
    /\ dbUp
    /\ dbUp' = FALSE
    /\ UNCHANGED <<standalone, init_outcomes, queried, critic_kinds,
                   pc, llm_initialized, db_initialized, db, query, task,
                   research_data, sessions, report, current_report, retry_count,
                   feedback, exc, raised, statusWrites, messages, produced,
                   critiques, revise_calls, revise_started, save_report_calls,
                   web_outcomes, gather_failed, all_sources_failed>>

-----------------------------------------------------------------------------
(* ResearchCoordinator.conduct_research, up to the initial research *)

\* task = ResearchTask(...); await db_manager.create_task(task)
\* callers start a run only after initialize() returned True
ConductResearch ==
    /\ pc = "ready"
    /\ \E q \in Queries :
          /\ query' = q
          /\ task' = [id |-> IF dbUp THEN "t1" ELSE "none",
                      query |-> q, status |-> PENDING,
                      current_report |-> NoReport, feedback_history |-> <<>>,
                      retry_count |-> 0, max_retries |-> MaxRetries]
    /\ db' = DbCreateTask(db)
    /\ statusWrites' = <<PENDING>>
    /\ pc' = "log_start"
    /\ UNCHANGED <<standalone, init_outcomes, queried, critic_kinds,
                   llm_initialized, db_initialized, dbUp, research_data, sessions,
                   report, current_report, retry_count, feedback, exc, raised, messages,
                   produced, critiques, revise_calls, revise_started,
                   save_report_calls, web_outcomes, gather_failed, all_sources_failed>>

LogStart ==
    /\ pc = "log_start"
    /\ LogAgentMessage("researcher", "Starting research on", query.topic)
    /\ pc' = AfterStoreCall(dbUp, "set_in_progress")
    /\ UNCHANGED <<standalone, init_outcomes, queried, critic_kinds,
                   llm_initialized, db_initialized, dbUp, query, task, research_data,
                   sessions, report, current_report, retry_count, feedback, exc, raised,
                   statusWrites, produced, critiques, revise_calls, revise_started,
                   save_report_calls, web_outcomes, gather_failed, all_sources_failed>>

SetInProgress ==
    /\ pc = "set_in_progress"
    /\ UpdateTaskStatus(IN_PROGRESS)
    /\ pc' = AfterStoreCall(dbUp, "initial_log")
    /\ UNCHANGED <<standalone, init_outcomes, queried, critic_kinds,
                   llm_initialized, db_initialized, dbUp, query, task, research_data,
                   sessions, report, current_report, retry_count, feedback, exc, raised,
                   messages, produced, critiques, revise_calls, revise_started,
                   save_report_calls, web_outcomes, gather_failed, all_sources_failed>>

\* _conduct_initial_research: first message
InitialLog ==
    /\ pc = "initial_log"
    /\ LogAgentMessage("researcher", "Conducting initial research...", "")
    /\ pc' = AfterStoreCall(dbUp, "gather_web")
    /\ UNCHANGED <<standalone, init_outcomes, queried, critic_kinds,
                   llm_initialized, db_initialized, dbUp, query, task, research_data,
                   sessions, report, current_report, retry_count, feedback, exc, raised,
                   statusWrites, produced, critiques, revise_calls, revise_started,
                   save_report_calls, web_outcomes, gather_failed, all_sources_failed>>

-----------------------------------------------------------------------------
(* ResearcherAgent._gather_research_data and the tools *)

\* the three lookups of _gather_research_data
Sources == {"web", "wikipedia", "arxiv"}

\* what one lookup does: finds records, fails inside the adapter (caught
\* there), or raises out of the adapter (_ensure_session is outside its try)
SourceOutcomes == {"hits", "error", "raise"}

Hit(q, source) == [title |-> q, source |-> source]

\* WebSearchTool.search without the placeholder substitution
WebSearchToolSearch_NoPlaceholder(q, outcome) ==
    IF outcome = "hits" THEN <<Hit(q, "DuckDuckGo")>> ELSE <<>>

\* WebSearchTool.search: an empty DuckDuckGo answer becomes one placeholder
WebSearchToolSearch(q, outcome) ==
    IF outcome = "hits" THEN <<Hit(q, "DuckDuckGo")>> ELSE <<Hit(q, "Placeholder")>>

\* a Python dict with string keys: the keys in insertion order and their values
EmptyDict == [keys |-> <<>>, val |-> <<>>]

Range(seq) == {seq[i] : i \in DOMAIN seq}

\* the keys of a dict filled by assigning d[k] for each k of the list in turn:
\* a key keeps the place of its first assignment
RECURSIVE DictKeys(_)
DictKeys(ks) ==
    IF Len(ks) = 0 THEN <<>>
    ELSE LET front == SubSeq(ks, 1, Len(ks) - 1)
             k == ks[Len(ks)]
         IN  IF k \in Range(front) THEN DictKeys(front)
             ELSE Append(DictKeys(front), k)

\* the position whose assignment a key's value comes from: the last one
LastIndexOf(ks, k) ==
    CHOOSE i \in DOMAIN ks : ks[i] = k /\ \A j \in DOMAIN ks : ks[j] = k => j <= i

\* dict.values()
DictValues(d) == [i \in 1..Len(d.keys) |-> d.val[d.keys[i]]]

\* multi_query_search with asyncio.gather(*tasks): the first exception of a
\* search fails the whole call
MultiQuerySearch_NoIsolation(queries, outcomes) ==
    IF \E i \in DOMAIN outcomes : outcomes[i] = "raise" THEN EmptyDict
    ELSE [keys |-> DictKeys(queries),
          val |-> [q \in Range(queries) |->
                     WebSearchToolSearch(q, outcomes[LastIndexOf(queries, q)])]]

\* WebSearchTool.multi_query_search: asyncio.gather(return_exceptions=True),
\* then results_dict[query] = [] for an exception and the search's list
\* otherwise, for each (query, result) pair in the order of the input
MultiQuerySearch(queries, outcomes) ==
    [keys |-> DictKeys(queries),
     val |-> [q \in Range(queries) |->
                LET i == LastIndexOf(queries, q)
                IN  IF outcomes[i] = "raise" THEN <<>>
                    ELSE WebSearchToolSearch(q, outcomes[i])]]

RECURSIVE Flatten(_)
Flatten(lists) ==
    IF Len(lists) = 0 THEN <<>> ELSE Head(lists) \o Flatten(Tail(lists))

\* search_queries = [query.topic] + (query.subtopics or [])
SearchQueries(q) == <<q.topic>> \o q.subtopics

\* WikipediaTool.search_and_summarize / ArxivTool.search inside their own try
SourceResults(q, source, outcome) ==
    IF outcome = "hits" THEN <<Hit(q, source)>> ELSE <<>>

\* _gather_research_data without its try/except: the exception reaches
\* conduct_research's except clause
GatherExceptTarget_Propagates == "except_status"

\* the pc after an exception inside _gather_research_data's try:
\* except Exception: logger.error(...); return research_data
GatherExceptTarget == "plan"

\* a bundle that has a slot only once the slot's lookup has returned
BundleAfterException_Partial(rd) == [web_results |-> rd.web_results]

\* except Exception: ...; return research_data: the dict created before the
\* try, with the slots assigned so far
BundleAfterException(rd) == rd

GatherWeb ==
    /\ pc = "gather_web"
    /\ \E outcomes \in [1..Len(SearchQueries(query)) -> SourceOutcomes] :
          /\ research_data' =
                [EmptyBundle EXCEPT !.web_results =
                    Flatten(DictValues(MultiQuerySearch(SearchQueries(query), outcomes)))]
          /\ sessions' = [sessions EXCEPT !.web =
                IF \E i \in DOMAIN outcomes : outcomes[i] # "raise" THEN "open" ELSE @]
          /\ web_outcomes' = outcomes
          /\ all_sources_failed' = (\A i \in DOMAIN outcomes : outcomes[i] # "hits")
    /\ queried' = {"web"}
    /\ pc' = "gather_wiki"
    /\ UNCHANGED <<standalone, init_outcomes, critic_kinds,
                   llm_initialized, db_initialized, dbUp, db, query, task,
                   report, current_report, retry_count, feedback, exc, raised, statusWrites,
                   messages, produced, critiques, revise_calls, revise_started,
                   save_report_calls, gather_failed>>

GatherWiki ==
    /\ pc = "gather_wiki"
    /\ \E outcome \in SourceOutcomes :
          /\ research_data' =
                IF outcome = "raise" THEN BundleAfterException(research_data)
                ELSE [research_data EXCEPT !.wikipedia_results =
                        SourceResults(query.topic, "Wikipedia", outcome)]
          /\ sessions' = [sessions EXCEPT !.wikipedia =
                IF outcome = "raise" THEN @ ELSE "open"]
          /\ queried' = queried \cup {"wikipedia"}
          /\ gather_failed' = (outcome = "raise")
          /\ all_sources_failed' = (all_sources_failed /\ outcome # "hits")
          /\ pc' = IF outcome = "raise" THEN GatherExceptTarget ELSE "gather_arxiv"
          /\ exc' = IF outcome = "raise" /\ GatherExceptTarget = "except_status"
                    THEN [type |-> "ClientError", text |-> "session error",
                          step |-> "gather", cause |-> "raise"]
                    ELSE exc
    /\ UNCHANGED <<standalone, init_outcomes, critic_kinds,
                   llm_initialized, db_initialized, dbUp, db, query, task,
                   report, current_report, retry_count, feedback, raised, statusWrites,
                   messages, produced, critiques, revise_calls, revise_started,
                   save_report_calls, web_outcomes>>

GatherArxiv ==
    /\ pc = "gather_arxiv"
    /\ \E outcome \in SourceOutcomes :
          /\ research_data' =
                IF outcome = "raise" THEN BundleAfterException(research_data)
                ELSE [research_data EXCEPT !.arxiv_results =
                        SourceResults(query.topic, "arXiv", outcome)]
          /\ sessions' = [sessions EXCEPT !.arxiv =
                IF outcome = "raise" THEN @ ELSE "open"]
          /\ queried' = queried \cup {"arxiv"}
          /\ gather_failed' = (outcome = "raise")
          /\ all_sources_failed' = (all_sources_failed /\ outcome # "hits")
          /\ pc' = IF outcome = "raise" THEN GatherExceptTarget ELSE "plan"
          /\ exc' = IF outcome = "raise" /\ GatherExceptTarget = "except_status"
                    THEN [type |-> "ClientError", text |-> "session error",
                          step |-> "gather", cause |-> "raise"]
                    ELSE exc
    /\ UNCHANGED <<standalone, init_outcomes, critic_kinds,
                   llm_initialized, db_initialized, dbUp, db, query, task,
                   report, current_report, retry_count, feedback, raised, statusWrites,
                   messages, produced, critiques, revise_calls, revise_started,
                   save_report_calls, web_outcomes>>


-----------------------------------------------------------------------------
(* ResearcherAgent.process after the gathering: the two generation calls *)

\* what a structured generation call yields: a data block the role can use,
\* the parser's raw-text fallback, a block whose fields fail the model
\* validation, or an error of the backend
StructuredOutcomes == {"json", "unstructured", "invalid", "timeout", "upstream"}

NumSections(outcome) == IF outcome = "json" THEN 1 ELSE 0

SourcesGathered(rd) ==
    [web |-> Len(rd.web_results), wikipedia |-> Len(rd.wikipedia_results),
     arxiv |-> Len(rd.arxiv_results)]

\* ResearchReport(...) built by ResearcherAgent.process
InitialReport(outcome, rd) ==
    [kind |-> "report", sections |-> NumSections(outcome), revision_number |-> 0,
     original_feedback_score |-> -1, sources_gathered |-> SourcesGathered(rd)]

\* a reviser that numbers every revision 1, whatever the original's number
RevisedReport_NumberOne(original, fb, outcome) ==
    [original EXCEPT !.sections = NumSections(outcome),
                     !.revision_number = 1,
                     !.original_feedback_score = fb.overall_score]

\* ResearchReport(...) built by ReviserAgent._generate_revised_report
RevisedReport(original, fb, outcome) ==
    [original EXCEPT !.sections = NumSections(outcome),
                     !.revision_number = @ + 1,
                     !.original_feedback_score = fb.overall_score]

\* _generate_research_plan
Plan ==
    /\ pc = "plan"
    /\ \E outcome \in LlmOutcomes :
          IF outcome = "text"
          THEN /\ pc' = "content"
               /\ exc' = exc
          ELSE /\ pc' = "except_status"
               /\ exc' = GenerateResponseError(outcome, "plan")
    /\ UNCHANGED <<standalone, init_outcomes, queried, critic_kinds,
                   llm_initialized, db_initialized, dbUp, db, query, task,
                   research_data, sessions, report, current_report, retry_count,
                   feedback, raised, statusWrites, messages, produced, critiques,
                   revise_calls, revise_started, save_report_calls, web_outcomes, gather_failed,
                   all_sources_failed>>

\* _generate_report_content and the construction of the report
Content ==
    /\ pc = "content"
    /\ \E outcome \in StructuredOutcomes :
          IF outcome \in {"json", "unstructured"}
          THEN /\ report' = InitialReport(outcome, research_data)
               /\ produced' = Append(produced, InitialReport(outcome, research_data))
               /\ pc' = "close_sessions"
               /\ exc' = exc
          ELSE /\ pc' = "except_status"
               /\ exc' = IF outcome = "invalid" THEN ValidationError("content")
                         ELSE GenerateResponseError(outcome, "content")
               /\ UNCHANGED <<report, produced>>
    /\ UNCHANGED <<standalone, init_outcomes, queried, critic_kinds,
                   llm_initialized, db_initialized, dbUp, db, query, task,
                   research_data, sessions, current_report, retry_count,
                   feedback, raised, statusWrites, messages, critiques,
                   revise_calls, revise_started, save_report_calls, web_outcomes, gather_failed,
                   all_sources_failed>>

\* await self.web_search.close(); self.wikipedia.close(); self.arxiv.close();
\* return report (research_data goes out of scope)
CloseSessions ==
    /\ pc = "close_sessions"
    /\ sessions' = [s \in DOMAIN sessions |->
                        IF sessions[s] = "open" THEN "closed" ELSE sessions[s]]
    /\ research_data' = EmptyBundle
    /\ web_outcomes' = <<>>
    /\ queried' = {}
    /\ pc' = "initial_done_log"
    /\ UNCHANGED <<standalone, init_outcomes, critic_kinds,
                   llm_initialized, db_initialized, dbUp, db, query, task, report,
                   current_report, retry_count, feedback, exc, raised, statusWrites,
                   messages, produced, critiques, revise_calls, revise_started,
                   save_report_calls, gather_failed, all_sources_failed>>

\* _conduct_initial_research: second message, return; task.current_report = ...
InitialDoneLog ==
    /\ pc = "initial_done_log"
    /\ LogAgentMessage("researcher", "Initial research completed", "")
    /\ current_report' = report
    /\ task' = [task EXCEPT !.current_report = report]
    /\ pc' = AfterStoreCall(dbUp, "save_initial")
    /\ UNCHANGED <<standalone, init_outcomes, queried, critic_kinds,
                   llm_initialized, db_initialized, dbUp, query, research_data,
                   sessions, report, retry_count, feedback, exc, raised,
                   statusWrites, produced, critiques, revise_calls, revise_started,
                   save_report_calls, web_outcomes, gather_failed, all_sources_failed>>

-----------------------------------------------------------------------------
(* _self_correction_loop *)

\* a loop that has the last revision critiqued once the budget is used up
AfterLoop_Recheck(rc) == IF rc >= MaxRetries THEN "set_reviewing" ELSE "save_final"

\* if retry_count >= max_retries (after the loop)
AfterLoop(rc) == IF rc >= MaxRetries THEN "exhausted_log" ELSE "save_final"

\* a loop body that calls the critic without writing REVIEWING first
LoopTest_NoStatus(rc) ==
    IF LoopContinues(rc) THEN "critique_log" ELSE AfterLoop(rc)

\* a loop whose body starts with the revision instead of the critique
LoopTest_SkipCritique(rc) ==
    IF LoopContinues(rc) THEN "set_revising" ELSE AfterLoop(rc)

\* the while test, and what follows the loop when it is false
LoopTest(rc) == IF LoopContinues(rc) THEN "set_reviewing" ELSE AfterLoop(rc)

\* await save_report(current_report); the loop starts with retry_count = 0
SaveInitial ==
    /\ pc = "save_initial"
    /\ db' = DbSaveReport(db, current_report)
    /\ save_report_calls' = save_report_calls + 1
    /\ retry_count' = 0
    /\ pc' = AfterStoreCall(dbUp, LoopTest(0))
    /\ UNCHANGED <<standalone, init_outcomes, queried, critic_kinds,
                   llm_initialized, db_initialized, dbUp, query, task, research_data,
                   sessions, report, current_report, feedback, exc, raised,
                   statusWrites, messages, produced, critiques, revise_calls,
                   revise_started, web_outcomes, gather_failed, all_sources_failed>>

SetReviewing ==
    /\ pc = "set_reviewing"
    /\ UpdateTaskStatus(REVIEWING)
    /\ pc' = AfterStoreCall(dbUp, "critique_log")
    /\ UNCHANGED <<standalone, init_outcomes, queried, critic_kinds,
                   llm_initialized, db_initialized, dbUp, query, task, research_data,
                   sessions, report, current_report, retry_count, feedback, exc,
                   raised, messages, produced, critiques, revise_calls,
                   revise_started, save_report_calls, web_outcomes, gather_failed,
                   all_sources_failed>>

\* _critique_report: first message
CritiqueLog ==
    /\ pc = "critique_log"
    /\ LogAgentMessage("critic", "Analyzing report quality and providing feedback...", "")
    /\ pc' = AfterStoreCall(dbUp, "critique")
    /\ UNCHANGED <<standalone, init_outcomes, queried, critic_kinds,
                   llm_initialized, db_initialized, dbUp, query, task, research_data,
                   sessions, report, current_report, retry_count, feedback, exc,
                   raised, statusWrites, produced, critiques, revise_calls,
                   revise_started, save_report_calls, web_outcomes, gather_failed,
                   all_sources_failed>>

\* the overall_score values a critic's data block may carry
ResponseScores == {69, 70, 85, 105}

CriticResponses ==
    {[kind |-> k, score |-> 0] : k \in {"timeout", "upstream", "unstructured"}}
        \cup {[kind |-> "json", score |-> s] : s \in ResponseScores}

\* feedback.get("overall_score", 5.0)
OverallScore(resp) == IF resp.kind = "json" THEN resp.score ELSE DefaultScore

\* CritiqueFeedback.overall_score: Field(..., ge=0.0, le=10.0)
ValidScore(s) == 0 <= s /\ s <= MaxScore

\* CriticAgent.process
Critique ==
    /\ pc = "critique"
    /\ \E resp \in CriticResponses :
          IF resp.kind \in {"timeout", "upstream"}
          THEN /\ pc' = "except_status"
               /\ exc' = GenerateResponseError(resp.kind, "critique")
               /\ UNCHANGED <<feedback, critiques, critic_kinds>>
          ELSE IF ~ValidScore(OverallScore(resp))
          THEN /\ pc' = "except_status"
               /\ exc' = ValidationError("critique")
               /\ UNCHANGED <<feedback, critiques, critic_kinds>>
          ELSE /\ feedback' = [overall_score |-> OverallScore(resp)]
               /\ critiques' = Append(critiques, OverallScore(resp))
               /\ critic_kinds' = Append(critic_kinds, resp.kind)
               /\ pc' = "save_feedback"
               /\ exc' = exc
    /\ UNCHANGED <<standalone, init_outcomes, queried,
                   llm_initialized, db_initialized, dbUp, db, query, task,
                   research_data, sessions, report, current_report, retry_count,
                   raised, statusWrites, messages, produced, revise_calls,
                   revise_started, save_report_calls, web_outcomes, gather_failed,
                   all_sources_failed>>

SaveFeedback ==
    /\ pc = "save_feedback"
    /\ db' = DbSaveFeedback(db, feedback)
    /\ pc' = AfterStoreCall(dbUp, "critique_done_log")
    /\ UNCHANGED <<standalone, init_outcomes, queried, critic_kinds,
                   llm_initialized, db_initialized, dbUp, query, task, research_data,
                   sessions, report, current_report, retry_count, feedback, exc,
                   raised, statusWrites, messages, produced, critiques, revise_calls,
                   revise_started, save_report_calls, web_outcomes, gather_failed,
                   all_sources_failed>>

\* _critique_report: second message, return; then the quality gate
CritiqueDoneLog ==
    /\ pc = "critique_done_log"
    /\ LogAgentMessage("critic", "Critique completed. Overall score", "")
    /\ pc' = AfterStoreCall(dbUp, IF QualityAcceptable(feedback.overall_score)
             THEN "accept_log" ELSE "set_revising")
    /\ UNCHANGED <<standalone, init_outcomes, queried, critic_kinds,
                   llm_initialized, db_initialized, dbUp, query, task, research_data,
                   sessions, report, current_report, retry_count, feedback, exc,
                   raised, statusWrites, produced, critiques, revise_calls,
                   revise_started, save_report_calls, web_outcomes, gather_failed,
                   all_sources_failed>>

\* the message of the accepting branch, then break
AcceptLog ==
    /\ pc = "accept_log"
    /\ LogAgentMessage("critic", "Report quality acceptable. No revisions needed.", "")
    /\ pc' = AfterStoreCall(dbUp, AfterLoop(retry_count))
    /\ UNCHANGED <<standalone, init_outcomes, queried, critic_kinds,
                   llm_initialized, db_initialized, dbUp, query, task, research_data,
                   sessions, report, current_report, retry_count, feedback, exc,
                   raised, statusWrites, produced, critiques, revise_calls,
                   revise_started, save_report_calls, web_outcomes, gather_failed,
                   all_sources_failed>>

SetRevising ==
    /\ pc = "set_revising"
    /\ UpdateTaskStatus(REVISING)
    /\ pc' = AfterStoreCall(dbUp, "revise_log")
    /\ UNCHANGED <<standalone, init_outcomes, queried, critic_kinds,
                   llm_initialized, db_initialized, dbUp, query, task, research_data,
                   sessions, report, current_report, retry_count, feedback, exc,
                   raised, messages, produced, critiques, revise_calls,
                   revise_started, save_report_calls, web_outcomes, gather_failed,
                   all_sources_failed>>

\* _revise_report is called: first message
ReviseLog ==
    /\ pc = "revise_log"
    /\ LogAgentMessage("reviser", "Revising report based on feedback...", "")
    /\ revise_started' = revise_started + 1
    /\ pc' = AfterStoreCall(dbUp, "revise")
    /\ UNCHANGED <<standalone, init_outcomes, queried, critic_kinds,
                   llm_initialized, db_initialized, dbUp, query, task, research_data,
                   sessions, report, current_report, retry_count, feedback, exc,
                   raised, statusWrites, produced, critiques, revise_calls,
                   save_report_calls, web_outcomes, gather_failed, all_sources_failed>>

\* ReviserAgent.process
Revise ==
    /\ pc = "revise"
    /\ \E outcome \in StructuredOutcomes :
          IF outcome \in {"json", "unstructured"}
          THEN /\ report' = RevisedReport(current_report, feedback, outcome)
               /\ produced' = Append(produced,
                                     RevisedReport(current_report, feedback, outcome))
               /\ pc' = "revise_done_log"
               /\ exc' = exc
          ELSE /\ pc' = "except_status"
               /\ exc' = IF outcome = "invalid" THEN ValidationError("revise")
                         ELSE GenerateResponseError(outcome, "revise")
               /\ UNCHANGED <<report, produced>>
    /\ UNCHANGED <<standalone, init_outcomes, queried, critic_kinds,
                   llm_initialized, db_initialized, dbUp, db, query, task,
                   research_data, sessions, current_report, retry_count, feedback,
                   raised, statusWrites, messages, critiques, revise_calls,
                   revise_started, save_report_calls, web_outcomes, gather_failed,
                   all_sources_failed>>

\* _revise_report: second message, return; current_report = ...; retry_count += 1
ReviseDoneLog ==
    /\ pc = "revise_done_log"
    /\ LogAgentMessage("reviser", "Revision completed. Report improved", "")
    /\ current_report' = report
    /\ retry_count' = NextRetryCount(retry_count)
    /\ revise_calls' = revise_calls + 1
    /\ pc' = AfterStoreCall(dbUp, "revision_n_log")
    /\ UNCHANGED <<standalone, init_outcomes, queried, critic_kinds,
                   llm_initialized, db_initialized, dbUp, query, task, research_data,
                   sessions, report, feedback, exc, raised, statusWrites, produced,
                   critiques, revise_started, save_report_calls, web_outcomes, gather_failed,
                   all_sources_failed>>

\* the loop's own message, then back to the while test
RevisionNLog ==
    /\ pc = "revision_n_log"
    /\ LogAgentMessage("reviser", "Revision completed. New report generated.",
                       ToString(retry_count))
    /\ pc' = AfterStoreCall(dbUp, LoopTest(retry_count))
    /\ UNCHANGED <<standalone, init_outcomes, queried, critic_kinds,
                   llm_initialized, db_initialized, dbUp, query, task, research_data,
                   sessions, report, current_report, retry_count, feedback, exc,
                   raised, statusWrites, produced, critiques, revise_calls,
                   revise_started, save_report_calls, web_outcomes, gather_failed,
                   all_sources_failed>>

ExhaustedLog ==
    /\ pc = "exhausted_log"
    /\ LogAgentMessage("researcher", "Maximum revisions reached. Using current report.",
                       ToString(MaxRetries))
    /\ pc' = AfterStoreCall(dbUp, "save_final")
    /\ UNCHANGED <<standalone, init_outcomes, queried, critic_kinds,
                   llm_initialized, db_initialized, dbUp, query, task, research_data,
                   sessions, report, current_report, retry_count, feedback, exc,
                   raised, statusWrites, produced, critiques, revise_calls,
                   revise_started, save_report_calls, web_outcomes, gather_failed,
                   all_sources_failed>>

-----------------------------------------------------------------------------
(* conduct_research after the loop, and its except clause *)

\* a loop that hands back the report it was given
LoopResult_Initial(initial_report, latest) == initial_report

\* _self_correction_loop: return current_report
LoopResult(initial_report, latest) == latest

\* final_report = await self._self_correction_loop(task.current_report, ...);
\* task.current_report = final_report; await save_report(final_report)
SaveFinal ==
    /\ pc = "save_final"
    /\ task' = [task EXCEPT !.current_report =
                                LoopResult(task.current_report, current_report)]
    /\ db' = DbSaveReport(db, LoopResult(task.current_report, current_report))
    /\ save_report_calls' = save_report_calls + 1
    /\ pc' = AfterStoreCall(dbUp, "set_completed")
    /\ UNCHANGED <<standalone, init_outcomes, queried, critic_kinds,
                   llm_initialized, db_initialized, dbUp, query, research_data,
                   sessions, report, current_report, retry_count, feedback, exc,
                   raised, statusWrites, messages, produced, critiques, revise_calls,
                   revise_started, web_outcomes, gather_failed, all_sources_failed>>

SetCompleted ==
    /\ pc = "set_completed"
    /\ UpdateTaskStatus(COMPLETED)
    /\ task' = [task EXCEPT !.status = COMPLETED]
    /\ pc' = AfterStoreCall(dbUp, "completed_log")
    /\ UNCHANGED <<standalone, init_outcomes, queried, critic_kinds,
                   llm_initialized, db_initialized, dbUp, query, research_data,
                   sessions, report, current_report, retry_count, feedback, exc,
                   raised, messages, produced, critiques, revise_calls,
                   revise_started, save_report_calls, web_outcomes, gather_failed,
                   all_sources_failed>>

\* the last message, then return task
CompletedLog ==
    /\ pc = "completed_log"
    /\ LogAgentMessage("researcher", "Research completed successfully for", query.topic)
    /\ pc' = AfterStoreCall(dbUp, "returned")
    /\ UNCHANGED <<standalone, init_outcomes, queried, critic_kinds,
                   llm_initialized, db_initialized, dbUp, query, task, research_data,
                   sessions, report, current_report, retry_count, feedback, exc,
                   raised, statusWrites, produced, critiques, revise_calls,
                   revise_started, save_report_calls, web_outcomes, gather_failed,
                   all_sources_failed>>

\* the except clause leaving the status of the phase that failed
HandlerStatus_NotFailed == IN_PROGRESS

\* the status the except clause writes
HandlerStatus == FAILED

\* raise (bare): the caught exception itself
Reraise(e) == e

\* except Exception as e: status FAILED
ExceptStatus ==
    /\ pc = "except_status"
    /\ UpdateTaskStatus(HandlerStatus)
    /\ task' = [task EXCEPT !.status = HandlerStatus]
    /\ pc' = "failed_log"
    /\ UNCHANGED <<standalone, init_outcomes, queried, critic_kinds,
                   llm_initialized, db_initialized, dbUp, query, research_data,
                   sessions, report, current_report, retry_count, feedback, exc,
                   raised, messages, produced, critiques, revise_calls,
                   revise_started, save_report_calls, web_outcomes, gather_failed,
                   all_sources_failed>>

\* the failure message, then raise
FailedLog ==
    /\ pc = "failed_log"
    /\ LogAgentMessage("researcher", "Research failed", exc.text)
    /\ raised' = Reraise(exc)
    /\ pc' = "raised"
    /\ UNCHANGED <<standalone, init_outcomes, queried, critic_kinds,
                   llm_initialized, db_initialized, dbUp, query, task, research_data,
                   sessions, report, current_report, retry_count, feedback, exc,
                   statusWrites, produced, critiques, revise_calls, revise_started,
                   save_report_calls, web_outcomes, gather_failed, all_sources_failed>>

-----------------------------------------------------------------------------
\* the steps of the coordinator
Run ==
    \/ Initialize \/ ConductResearch \/ LogStart \/ SetInProgress \/ InitialLog
    \/ GatherWeb \/ GatherWiki \/ GatherArxiv \/ Plan \/ Content \/ CloseSessions
    \/ InitialDoneLog \/ SaveInitial \/ SetReviewing \/ CritiqueLog \/ Critique
    \/ SaveFeedback \/ CritiqueDoneLog \/ AcceptLog \/ SetRevising \/ ReviseLog
    \/ Revise \/ ReviseDoneLog \/ RevisionNLog \/ ExhaustedLog \/ SaveFinal
    \/ SetCompleted \/ CompletedLog \/ ExceptStatus \/ FailedLog

Next == Run \/ DbOutage

Spec == Init /\ [][Next]_vars

\* every awaited call returns or raises, and the event loop resumes the run
LiveSpec == Spec /\ WF_vars(Run)


-----------------------------------------------------------------------------
(* WebSearchTool.multi_query_search on its own: any list of queries, any   *)
(* outcome of each query's search                                          *)

MaxBatch == 3

\* the query strings of a batch; a subtopic may repeat the topic
BatchQueryNames == Topics \cup {SubtopicNames[1]}

BatchInputs ==
    UNION {{[queries |-> qs, outcomes |-> os, settled |-> <<>>, called |-> FALSE,
             results_dict |-> EmptyDict] :
                qs \in [1..n -> BatchQueryNames], os \in [1..n -> SourceOutcomes]} :
           n \in 1..MaxBatch}

BatchInit ==
    /\ IdleRun
    /\ response_text = <<>>
    /\ structured = NotCalled
    /\ batch \in BatchInputs
    /\ runs = NoRuns
    /\ shared_tools = NoTools
    /\ abandoned = FALSE
    /\ models = NoModels
    /\ route = NoRoute

\* one of the concurrent searches of the batch settles, returning or raising;
\* settled holds the positions of the searches in the order they settled
SettleSearch ==
    /\ batch # NoBatch
    /\ \E i \in DOMAIN batch.queries \ Range(batch.settled) :
          batch' = [batch EXCEPT !.settled = Append(@, i)]
    /\ UNCHANGED <<runVars, abandoned, models, route, response_text, structured, runs, shared_tools>>

\* a results list in the order in which the searches settled
GatherOrder_AsCompleted(n, settled) == settled

\* asyncio.gather: the k-th element of the results list is the result of the
\* k-th awaitable, whatever the order in which they settled
GatherOrder(n, settled) == [k \in 1..n |-> k]

\* results_list = await asyncio.gather(...) returns once every search has
\* settled; then the loop over zip(queries, results_list) fills results_dict
MultiQuery ==
    /\ batch # NoBatch
    /\ ~batch.called
    /\ Len(batch.settled) = Len(batch.queries)
    /\ LET order == GatherOrder(Len(batch.queries), batch.settled)
           results_list == [k \in DOMAIN order |-> batch.outcomes[order[k]]]
       IN  batch' = [batch EXCEPT !.called = TRUE,
                        !.results_dict = MultiQuerySearch(batch.queries, results_list)]
    /\ UNCHANGED <<runVars, abandoned, models, route, response_text, structured, runs, shared_tools>>

BatchNext == SettleSearch \/ MultiQuery

BatchSpec == BatchInit /\ [][BatchNext]_vars

-----------------------------------------------------------------------------
(* GroqClient.generate_structured_response after the backend answered: the *)
(* extraction of the data block from the response text.                     *)
(*                                                                          *)
(* A text is a sequence of tokens: "{" and "}" are the braces; "k" is a     *)
(* complete member "k": 1; "n" is a key and its colon, "n": , whose value   *)
(* has to follow; "d" is a complete member whose value is nested deeper     *)
(* than the interpreter's recursion limit; "x" is a piece of prose.         *)

MaxText == 5

TextTokens == {"{", "}", "k", "n", "d", "x"}

Texts == UNION {[1..n -> TextTokens] : n \in 0..MaxText}

\* Python values
PyInt(i) == [type |-> "int", n |-> i]
PyStr(t) == [type |-> "str", s |-> t]
PyDict(items) == [type |-> "dict", items |-> items]
Item(key, value) == [key |-> key, value |-> value]

DictKeySet(d) == {d.items[i].key : i \in DOMAIN d.items}

\* str.find: the 0-based index of the first occurrence, or -1
Find(ts, c) ==
    IF \E i \in DOMAIN ts : ts[i] = c
    THEN (CHOOSE i \in DOMAIN ts : ts[i] = c /\ \A j \in DOMAIN ts : ts[j] = c => i <= j) - 1
    ELSE -1

\* str.find used for the closing brace as well
RFind_First(ts, c) == Find(ts, c)

\* str.rfind: the 0-based index of the last occurrence, or -1
RFind(ts, c) ==
    IF \E i \in DOMAIN ts : ts[i] = c
    THEN (CHOOSE i \in DOMAIN ts : ts[i] = c /\ \A j \in DOMAIN ts : ts[j] = c => j <= i) - 1
    ELSE -1

\* response_text[start_idx:end_idx]
Slice(ts, start_idx, end_idx) == SubSeq(ts, start_idx + 1, end_idx)

\* the texts of the JSON object grammar: {}, {k}, {d}, {n object}
RECURSIVE IsObjectText(_)
IsObjectText(ts) ==
    /\ Len(ts) >= 2
    /\ ts[1] = "{"
    /\ ts[Len(ts)] = "}"
    /\ LET inner == SubSeq(ts, 2, Len(ts) - 1)
       IN  \/ inner = <<>>
           \/ inner = <<"k">>
           \/ inner = <<"d">>
           \/ /\ Len(inner) >= 1
              /\ inner[1] = "n"
              /\ IsObjectText(Tail(inner))

\* the object text holds a value json.loads cannot build
RECURSIVE TooDeep(_)
TooDeep(ts) ==
    LET inner == SubSeq(ts, 2, Len(ts) - 1)
    IN  \/ inner = <<"d">>
        \/ /\ Len(inner) >= 1
           /\ inner[1] = "n"
           /\ TooDeep(Tail(inner))

\* the dict json.loads builds from an object text
RECURSIVE ObjectOf(_)
ObjectOf(ts) ==
    LET inner == SubSeq(ts, 2, Len(ts) - 1)
    IN  IF inner = <<>> THEN PyDict(<<>>)
        ELSE IF inner = <<"k">> THEN PyDict(<<Item("k", PyInt(1))>>)
        ELSE PyDict(<<Item("n", ObjectOf(Tail(inner)))>>)

\* json.loads(json_str): the value, json.JSONDecodeError for a text outside
\* the grammar, RecursionError for a value nested too deep
JsonLoads(ts) ==
    IF ~IsObjectText(ts) THEN [kind |-> "JSONDecodeError", msg |-> "Expecting value"]
    ELSE IF TooDeep(ts) THEN [kind |-> "RecursionError", msg |-> "maximum recursion depth exceeded"]
    ELSE [kind |-> "value", value |-> ObjectOf(ts)]

\* lines 88-103 of generate_structured_response: what the call returns or raises
ParseStructured(text) ==
    LET start_idx == Find(text, "{")
        end_idx == RFind(text, "}") + 1
    IN  IF start_idx # -1 /\ end_idx > start_idx
        THEN LET r == JsonLoads(Slice(text, start_idx, end_idx))
             IN  IF r.kind = "value"
                 THEN [kind |-> "returned", value |-> r.value]
                 ELSE IF r.kind = "JSONDecodeError"
                 THEN [kind |-> "returned",
                       value |-> PyDict(<<Item("response", PyStr(text)),
                                          Item("parse_error", PyStr(r.msg))>>)]
                 ELSE [kind |-> "raised", error |-> r.kind]
        ELSE [kind |-> "returned", value |-> PyDict(<<Item("response", PyStr(text))>>)]

ParserInit ==
    /\ IdleRun
    /\ response_text \in Texts
    /\ structured = NotCalled
    /\ batch = NoBatch
    /\ runs = NoRuns
    /\ shared_tools = NoTools
    /\ abandoned = FALSE
    /\ models = NoModels
    /\ route = NoRoute

\* the backend returned response_text; the block is extracted
ParseResponse ==
    /\ structured = NotCalled
    /\ structured' = ParseStructured(response_text)
    /\ UNCHANGED <<runVars, abandoned, models, route, response_text, batch, runs, shared_tools>>

ParserNext == ParseResponse

ParserSpec == ParserInit /\ [][ParserNext]_vars

-----------------------------------------------------------------------------
(* Two conduct_research calls in flight on the one coordinator of          *)
(* api/routes.py.  The coordinator has one ResearcherAgent and the agent   *)
(* one WebSearchTool, WikipediaTool and ArxivTool, each with one session   *)
(* attribute; the evidence sources themselves answer every request.        *)

RunIds == {1, 2}

RunTopics == <<"AI", "ML">>

At(step, source) == [step |-> step, source |-> source]

\* a tool before its first use: self.session = None, no request awaiting
FreshTool == [session |-> "none", waiting |-> {}]

ConcurrentInit ==
    /\ IdleRun
    /\ response_text = <<>>
    /\ structured = NotCalled
    /\ batch = NoBatch
    /\ runs = [r \in RunIds |->
                 [pc |-> At("idle", "none"), topic |-> RunTopics[r],
                  research_data |-> EmptyBundle, report |-> NoReport]]
    /\ shared_tools = [s \in Sources |-> FreshTool]
    /\ abandoned = FALSE
    /\ models = NoModels
    /\ route = NoRoute

\* what follows the lookup, or the close, of a source
AfterSource(step, s, then) ==
    IF s = "web" THEN At(step, "wikipedia")
    ELSE IF s = "wikipedia" THEN At(step, "arxiv")
    ELSE At(then, "none")

\* conduct_research is called and reaches _gather_research_data
StartRun ==
    /\ \E r \in RunIds :
          /\ runs[r].pc.step = "idle"
          /\ runs' = [runs EXCEPT ![r].pc = At("send", "web")]
    /\ UNCHANGED <<runVars, abandoned, models, route, response_text, structured, batch, shared_tools>>

\* await self._ensure_session(); async with self.session.get(...): the
\* request is sent on the tool's session and the run awaits the answer
SendRequest ==
    /\ \E r \in RunIds :
          /\ runs[r].pc.step = "send"
          /\ LET s == runs[r].pc.source
             IN  /\ shared_tools' =
                        [shared_tools EXCEPT ![s].session = "open",
                            ![s].waiting = @ \cup {[run |-> r, cut |-> FALSE]}]
                 /\ runs' = [runs EXCEPT ![r].pc = At("wait", s)]
    /\ UNCHANGED <<runVars, abandoned, models, route, response_text, structured, batch>>

\* what a request yields: the source's records, or, when the session was
\* closed under it, either the records (the answer was already in) or an
\* error that the adapter catches
AnswerOutcomes(cut) == IF cut THEN {"hits", "error"} ELSE {"hits"}

\* the slot of the bundle a lookup fills
LookupResults(topic, s, outcome) ==
    IF s = "web"
    THEN Flatten(DictValues(MultiQuerySearch(<<topic>>, <<outcome>>)))
    ELSE SourceResults(topic, IF s = "wikipedia" THEN "Wikipedia" ELSE "arXiv", outcome)

StoreResults(rd, s, results) ==
    IF s = "web" THEN [rd EXCEPT !.web_results = results]
    ELSE IF s = "wikipedia" THEN [rd EXCEPT !.wikipedia_results = results]
    ELSE [rd EXCEPT !.arxiv_results = results]

\* the awaited request completes and the lookup returns
ReceiveAnswer ==
    /\ \E r \in RunIds :
          /\ runs[r].pc.step = "wait"
          /\ LET s == runs[r].pc.source
             IN  \E w \in shared_tools[s].waiting :
                    /\ w.run = r
                    /\ \E outcome \in AnswerOutcomes(w.cut) :
                          runs' = [runs EXCEPT
                              ![r].research_data =
                                  StoreResults(@, s, LookupResults(runs[r].topic, s, outcome)),
                              ![r].pc = AfterSource("send", s, "generate")]
                    /\ shared_tools' = [shared_tools EXCEPT ![s].waiting = @ \ {w}]
    /\ UNCHANGED <<runVars, abandoned, models, route, response_text, structured, batch>>

\* the two generation calls of ResearcherAgent.process and the report
GenerateReport ==
    /\ \E r \in RunIds :
          /\ runs[r].pc.step = "generate"
          /\ \E outcome \in {"json", "timeout"} :
                runs' = IF outcome = "json"
                        THEN [runs EXCEPT
                                ![r].report = InitialReport(outcome, runs[r].research_data),
                                ![r].pc = At("close", "web")]
                        ELSE [runs EXCEPT ![r].pc = At("failed", "none")]
    /\ UNCHANGED <<runVars, abandoned, models, route, response_text, structured, batch, shared_tools>>

\* await self.web_search.close(), self.wikipedia.close(), self.arxiv.close():
\* the tool's session is closed, with every request that is awaiting on it
CloseTool ==
    /\ \E r \in RunIds :
          /\ runs[r].pc.step = "close"
          /\ LET s == runs[r].pc.source
             IN  /\ shared_tools' =
                        [shared_tools EXCEPT
                            ![s].session = IF @ = "open" THEN "closed" ELSE @,
                            ![s].waiting = {[w EXCEPT !.cut = TRUE] : w \in @}]
                 /\ runs' = [runs EXCEPT ![r].pc = AfterSource("close", s, "done")]
    /\ UNCHANGED <<runVars, abandoned, models, route, response_text, structured, batch>>

ConcurrentNext ==
    StartRun \/ SendRequest \/ ReceiveAnswer \/ GenerateReport \/ CloseTool

ConcurrentSpec == ConcurrentInit /\ [][ConcurrentNext]_vars

-----------------------------------------------------------------------------
(* A caller that gives a task up while conduct_research is running.  The   *)
(* coordinator has no operation that takes a cancellation; the caller's    *)
(* decision is an event of the environment.                                *)

RunningPcs ==
    {"log_start", "set_in_progress", "initial_log", "gather_web", "gather_wiki",
     "gather_arxiv", "plan", "content", "close_sessions", "initial_done_log",
     "save_initial", "set_reviewing", "critique_log", "critique", "save_feedback",
     "critique_done_log", "accept_log", "set_revising", "revise_log", "revise",
     "revise_done_log", "revision_n_log", "exhausted_log", "save_final",
     "set_completed", "completed_log"}

\* the caller abandons the task after its creation
Abandon ==
    /\ pc \in RunningPcs
    /\ ~abandoned
    /\ abandoned' = TRUE
    /\ UNCHANGED <<runVars, response_text, structured, batch, runs, shared_tools,
                   models, route>>

CancelNext == Next \/ Abandon

CancelSpec == Init /\ [][CancelNext]_vars

-----------------------------------------------------------------------------
(* The data models of models/research.py: construction with validation,    *)
(* model_dump(exclude_none=True), and construction again from the dump.    *)
(* credibility_score and confidence_score are counted in hundredths,       *)
(* overall_score in tenths as everywhere above.  An object is a record     *)
(* with a kind field; keyword arguments and dumps are functions from field *)
(* names to values, a field left out being outside their domain.           *)

MaxSections == 2

MaxSectionSources == 2

\* Python's None; an Optional field holds it or a PyStr
PyNone == [type |-> "NoneType"]

\* le=1.0 of credibility_score and confidence_score
MaxUnitScore == 100

\* ResearchQuery.depth_level: ge=1
MinDepth == 1

\* ResearchQuery.depth_level: le=5
MaxDepth == 5

\* dict.get(key, default), and a model field's default
Get(kw, key, default) == IF key \in DOMAIN kw THEN kw[key] ELSE default

IsValidationError(x) == "type" \in DOMAIN x /\ x.type = "ValidationError"

\* a constraint with the upper limit left out
InRange_NoUpper(v, lo, hi) == lo <= v

\* Field(ge=lo, le=hi): the value is taken as it is or refused
InRange(v, lo, hi) == lo <= v /\ v <= hi

\* ResearchQuery(**kw): topic is a required str, depth_level defaults to 3
ResearchQuery(kw) ==
    LET depth == Get(kw, "depth_level", DefaultDepth)
    IN  IF "topic" \notin DOMAIN kw THEN ValidationError("topic")
        ELSE IF ~InRange(depth, MinDepth, MaxDepth)
        THEN ValidationError("depth_level")
        ELSE [kind |-> "ResearchQuery", topic |-> kw.topic,
              subtopics |-> Get(kw, "subtopics", <<>>), depth_level |-> depth]

\* ResearchSource(**kw); content is a required str carried like title
ResearchSource(kw) ==
    LET score == Get(kw, "credibility_score", 0)
    IN  IF "title" \notin DOMAIN kw THEN ValidationError("title")
        ELSE IF ~InRange(score, 0, MaxUnitScore)
        THEN ValidationError("credibility_score")
        ELSE [kind |-> "ResearchSource", title |-> kw.title,
              url |-> Get(kw, "url", PyNone), credibility_score |-> score]

\* CritiqueFeedback(**kw): overall_score is required
CritiqueFeedback(kw) ==
    IF "overall_score" \notin DOMAIN kw THEN ValidationError("overall_score")
    ELSE IF ~ValidScore(kw.overall_score) THEN ValidationError("overall_score")
    ELSE [kind |-> "CritiqueFeedback", overall_score |-> kw.overall_score]

\* List[ResearchSource]: each element of the list is validated in its place
SourceList(items) == [i \in DOMAIN items |-> ResearchSource(items[i])]

AnyInvalid(objects) == \E i \in DOMAIN objects : IsValidationError(objects[i])

\* ResearchSection(**kw)
ResearchSection(kw) ==
    LET sources == SourceList(Get(kw, "sources", <<>>))
        score == Get(kw, "confidence_score", 0)
    IN  IF "title" \notin DOMAIN kw THEN ValidationError("title")
        ELSE IF AnyInvalid(sources) THEN ValidationError("sources")
        ELSE IF ~InRange(score, 0, MaxUnitScore)
        THEN ValidationError("confidence_score")
        ELSE [kind |-> "ResearchSection", title |-> kw.title,
              sources |-> sources, confidence_score |-> score]

SectionList(items) == [i \in DOMAIN items |-> ResearchSection(items[i])]

\* ResearchReport(**kw); keys that are not fields (task_id) are ignored
ResearchReport(kw) ==
    LET sections == SectionList(Get(kw, "sections", <<>>))
        sources == SourceList(Get(kw, "sources", <<>>))
    IN  IF "title" \notin DOMAIN kw THEN ValidationError("title")
        ELSE IF AnyInvalid(sections) THEN ValidationError("sections")
        ELSE IF AnyInvalid(sources) THEN ValidationError("sources")
        ELSE [kind |-> "ResearchReport", id |-> Get(kw, "id", PyNone),
              title |-> kw.title, sections |-> sections, sources |-> sources,
              created_at |-> Get(kw, "created_at", PyNone)]

\* exclude_none=True: a field holding None is left out of the dump
Field(name, value) == IF value = PyNone THEN <<>> ELSE name :> value

\* ResearchSource.model_dump(exclude_none=True)
DumpSource(s) ==
    [title |-> s.title, credibility_score |-> s.credibility_score]
        @@ Field("url", s.url)

\* a dump that rounds the score of a section to one decimal
DumpSection_Rounded(s) ==
    [title |-> s.title,
     sources |-> [i \in DOMAIN s.sources |-> DumpSource(s.sources[i])],
     confidence_score |-> (s.confidence_score \div 10) * 10]

\* ResearchSection.model_dump(exclude_none=True)
DumpSection(s) ==
    [title |-> s.title,
     sources |-> [i \in DOMAIN s.sources |-> DumpSource(s.sources[i])],
     confidence_score |-> s.confidence_score]

\* ResearchReport.model_dump(exclude_none=True)
DumpReport(r) ==
    [title |-> r.title,
     sections |-> [i \in DOMAIN r.sections |-> DumpSection(r.sections[i])],
     sources |-> [i \in DOMAIN r.sources |-> DumpSource(r.sources[i])]]
        @@ Field("id", r.id) @@ Field("created_at", r.created_at)

\* SupabaseManager.save_report: the row handed to the insert
ReportRow(r, task_id) ==
    [task_id |-> task_id, created_at |-> PyStr("now")] @@ DumpReport(r)

\* the inputs: valid objects and keyword arguments
SourceInputs ==
    {[kind |-> "ResearchSource", title |-> "a", url |-> PyNone,
      credibility_score |-> 85],
     [kind |-> "ResearchSource", title |-> "b", url |-> PyStr("u"),
      credibility_score |-> 30]}

SourceLists == UNION {[1..n -> SourceInputs] : n \in 0..MaxSectionSources}

\* confidence_score: the researcher's default 0.7, and 0.0, 0.75
SectionInputs ==
    {[kind |-> "ResearchSection", title |-> "s", sources |-> l,
      confidence_score |-> c] : l \in SourceLists, c \in {0, 70, 75}}

SectionLists == UNION {[1..n -> SectionInputs] : n \in 0..MaxSections}

\* the report's own source list repeats its sections' sources
ReportInputs ==
    {[kind |-> "ResearchReport", id |-> PyNone, title |-> "AI", sections |-> l,
      sources |-> Flatten([i \in DOMAIN l |-> l[i].sources]),
      created_at |-> PyNone] : l \in SectionLists}

ScoreInputs == {0 - 1, 0, 50, MaxUnitScore, MaxUnitScore + 1}

SourceArgs ==
    {[title |-> "a"]} \cup {[title |-> "a", credibility_score |-> c] : c \in ScoreInputs}

FeedbackArgs == {[overall_score |-> v] : v \in ScoreInputs}

QueryArgs ==
    {[topic |-> t] : t \in {"", "AI"}}
        \cup {[topic |-> t, depth_level |-> d] :
                 t \in {"", "AI"}, d \in (MinDepth - 1)..(MaxDepth + 1)}
        \cup {[depth_level |-> DefaultDepth]}

ModelsInit ==
    /\ IdleRun
    /\ response_text = <<>>
    /\ structured = NotCalled
    /\ batch = NoBatch
    /\ runs = NoRuns
    /\ shared_tools = NoTools
    /\ abandoned = FALSE
    /\ models \in {[kind |-> "report", report |-> r] : r \in ReportInputs}
            \cup {[kind |-> "source_args", args |-> a] : a \in SourceArgs}
            \cup {[kind |-> "feedback_args", args |-> a] : a \in FeedbackArgs}
            \cup {[kind |-> "query_args", args |-> a] : a \in QueryArgs}
    /\ route = NoRoute

ModelsUnchanged ==
    UNCHANGED <<runVars, response_text, structured, batch, runs, shared_tools,
                abandoned, route>>

\* save_report(report, task_id): the row of research_reports
SaveReportRow ==
    /\ models.kind = "report"
    /\ models' = [kind |-> "row", report |-> models.report,
                  row |-> ReportRow(models.report, "t1")]
    /\ ModelsUnchanged

\* ResearchReport(**row)
LoadReport ==
    /\ models.kind = "row"
    /\ models' = [kind |-> "loaded", report |-> models.report, row |-> models.row,
                  result |-> ResearchReport(models.row)]
    /\ ModelsUnchanged

ConstructSource ==
    /\ models.kind = "source_args"
    /\ models' = [kind |-> "source", args |-> models.args,
                  result |-> ResearchSource(models.args)]
    /\ ModelsUnchanged

ConstructFeedback ==
    /\ models.kind = "feedback_args"
    /\ models' = [kind |-> "feedback", args |-> models.args,
                  result |-> CritiqueFeedback(models.args)]
    /\ ModelsUnchanged

ConstructQuery ==
    /\ models.kind = "query_args"
    /\ models' = [kind |-> "query", args |-> models.args,
                  result |-> ResearchQuery(models.args)]
    /\ ModelsUnchanged

ModelsNext ==
    \/ SaveReportRow
    \/ LoadReport
    \/ ConstructSource
    \/ ConstructFeedback
    \/ ConstructQuery

ModelsSpec == ModelsInit /\ [][ModelsNext]_vars

-----------------------------------------------------------------------------
(* POST /research: create_research_task of api/routes.py.  A run of        *)
(* conduct_research is taken here by what it does to the task store when   *)
(* it starts (create_task) and by how it ends.                             *)

\* the bodies of the requests: ResearchRequest has no constraint of its own
RequestArgs ==
    {[topic |-> t] : t \in {"", "AI"}}
        \cup {[topic |-> t, depth_level |-> d] :
                 t \in {"", "AI"}, d \in (MinDepth - 1)..(MaxDepth + 1)}

RouteInit ==
    /\ IdleRun
    /\ response_text = <<>>
    /\ structured = NotCalled
    /\ batch = NoBatch
    /\ runs = NoRuns
    /\ shared_tools = NoTools
    /\ abandoned = FALSE
    /\ models = NoModels
    /\ route \in {[pc |-> "received", args |-> a, store_up |-> up,
                   background |-> <<>>, runs_started |-> 0, task_records |-> 0,
                   response |-> 0] : a \in RequestArgs, up \in BOOLEAN}

RouteUnchanged ==
    UNCHANGED <<runVars, response_text, structured, batch, runs, shared_tools,
                abandoned, models>>

\* conduct_research is entered: task = ResearchTask(...); create_task(task)
StartConductResearch(rt) ==
    [rt EXCEPT !.runs_started = @ + 1,
               !.task_records = IF rt.store_up THEN @ + 1 ELSE @]

\* query = ResearchQuery(...); background_tasks.add_task(conduct_research, query)
AddBackgroundTask ==
    /\ route.pc = "received"
    /\ LET q == ResearchQuery(route.args)
       IN  route' = IF IsValidationError(q)
                    THEN [route EXCEPT !.pc = "respond", !.response = 500]
                    ELSE [route EXCEPT !.pc = "call", !.background = Append(@, q)]
    /\ RouteUnchanged

\* task_result = await coordinator.conduct_research(query): the run starts
CallConductResearch ==
    /\ route.pc = "call"
    /\ route' = [StartConductResearch(route) EXCEPT !.pc = "await"]
    /\ RouteUnchanged

\* the awaited run returns the task, or raises into the except clause
AwaitConductResearch ==
    /\ route.pc = "await"
    /\ \E outcome \in {"returned", "raised"} :
          route' = [route EXCEPT !.pc = "respond",
                        !.response = IF outcome = "returned" THEN 200 ELSE 500]
    /\ RouteUnchanged

\* the response is sent; the background tasks belong to the response the
\* handler returned and are dropped when it raised HTTPException
Respond ==
    /\ route.pc = "respond"
    /\ route' = [route EXCEPT !.pc = "responded",
                    !.background = IF route.response = 200 THEN @ ELSE <<>>]
    /\ RouteUnchanged

\* after the response the queued background task runs conduct_research(query)
RunBackgroundTask ==
    /\ route.pc = "responded"
    /\ route.background # <<>>
    /\ route' = [StartConductResearch(route) EXCEPT !.background = Tail(@)]
    /\ RouteUnchanged

RouteNext ==
    \/ AddBackgroundTask
    \/ CallConductResearch
    \/ AwaitConductResearch
    \/ Respond
    \/ RunBackgroundTask

RouteSpec == RouteInit /\ [][RouteNext]_vars

-----------------------------------------------------------------------------
(* Properties *)

Last(seq) == seq[Len(seq)]

ExceptPcs == {"except_status", "failed_log", "raised"}

AfterLoopPcs == {"save_final", "set_completed", "completed_log", "returned"}

FailureMessage(e) == Msg("researcher", "Research failed", e.text)

C2_RetryCount ==
    /\ [](retry_count <= MaxRetries /\ retry_count = revise_calls)
    /\ [][retry_count' # retry_count =>
            /\ pc = "revise_done_log"
            /\ retry_count' = retry_count + 1
            /\ revise_calls' = revise_calls + 1]_vars

C2_Witness == retry_count = MaxRetries /\ pc = "returned"

\* C3: when the critique number k+1 is the first at or above the threshold,
\* no critique follows it, exactly k revisions were started and finished, and
\* the loop's result is the k-th revision's output (the initial report for
\* k = 0), which is also what the run returns.
C3_PassAfterK ==
    \A i \in 1..Len(critiques) :
        critiques[i] >= MinQualityScore =>
            /\ i = Len(critiques)
            /\ i - 1 < MaxRetries
            /\ revise_started = i - 1
            /\ revise_calls = i - 1
            /\ Len(produced) = i
            /\ (pc \in AfterLoopPcs \cup {"accept_log"} => current_report = produced[i])
            /\ (pc = "returned" => task.current_report = produced[i])

C3_Witness ==
    /\ pc = "returned"
    /\ Len(critiques) = MaxRetries
    /\ critiques[MaxRetries] >= MinQualityScore
    /\ revise_calls = MaxRetries - 1

\* C4: when every critique stayed below the threshold, the run that returns
\* made exactly max_retries revisions and returns the last revised report
\* with status COMPLETED; once the budget is used up the run cannot fail.
C4_Exhaustion ==
    /\ (pc = "returned" /\ \A i \in 1..Len(critiques) : critiques[i] < MinQualityScore) =>
            /\ revise_calls = MaxRetries
            /\ revise_started = MaxRetries
            /\ Len(produced) = MaxRetries + 1
            /\ task.current_report = Last(produced)
            /\ task.current_report.revision_number = MaxRetries
            /\ task.status = COMPLETED
            /\ Last(statusWrites) = COMPLETED
    /\ (retry_count >= MaxRetries => pc \notin ExceptPcs)

C4_Witness ==
    /\ pc = "returned"
    /\ revise_calls = MaxRetries
    /\ \A i \in 1..Len(critiques) : critiques[i] < MinQualityScore

\* C5: after a critique the loop takes the accepting branch exactly when the
\* score is at least 7.0, otherwise it goes on to a revision (the budget is
\* not used up at that point); between two critiques exactly one revision is
\* started, and a score below 7.0 always leads to that revision being called.
C5_Gate ==
    /\ [][(pc = "critique_done_log" /\ pc' # pc) =>
            /\ (pc' = "accept_log") <=> (feedback.overall_score >= 70)
            /\ (pc' # "accept_log") => (pc' = "set_revising" /\ retry_count < MaxRetries)]_vars
    /\ [](pc = "accept_log" => revise_started = Len(critiques) - 1)
    /\ [](revise_started <= Len(critiques) /\ Len(critiques) <= revise_started + 1)
    /\ [](pc = "critique" => revise_started = Len(critiques))
    /\ (pc = "set_revising") ~> (pc = "revise" /\ revise_started = Len(critiques))

C5_Witness ==
    /\ pc = "accept_log"
    /\ feedback.overall_score = 70
    /\ Len(critiques) = 2
    /\ critiques[1] = 69

\* C6: when a generation step raised, the except clause first writes the
\* status FAILED, then logs the failure message carrying the error's text as
\* the last message of the run, then raises the same error; a run in which a
\* generation step raised never returns.
C6_FailureHandling ==
    /\ [](pc \in ExceptPcs <=> exc # NoError)
    /\ [](exc # NoError => exc.step \in GenerationSteps /\ exc.text # "")
    /\ [](pc = "failed_log" =>
            /\ Last(statusWrites) = FAILED
            /\ task.status = FAILED
            /\ \A i \in 1..Len(messages) : messages[i].text # "Research failed"
            /\ raised = NoError)
    /\ [](pc = "raised" =>
            /\ Last(statusWrites) = FAILED
            /\ Last(messages) = FailureMessage(exc)
            /\ raised = exc
            /\ (dbUp => db.status = FAILED /\ Last(db.messages) = FailureMessage(exc)))
    /\ (exc # NoError) ~> (pc = "raised")

C6_Witness ==
    /\ pc = "raised"
    /\ exc.step = "revise"
    /\ dbUp
    /\ db.status = FAILED

\* C7: when the backend times out on a producer call, the run ends with the
\* task FAILED, its last message carries the timeout text, and save_report
\* was never called (no report is in the store).
C7_ProducerTimeout ==
    (exc.cause = "timeout" /\ exc.step \in {"plan", "content"}) =>
        /\ save_report_calls = 0
        /\ db.reports = <<>>
        /\ pc \in ExceptPcs
        /\ (pc = "raised" =>
                /\ task.status = FAILED
                /\ Last(statusWrites) = FAILED
                /\ Last(messages) = Msg("researcher", "Research failed", TimeoutText))

C7_Witness ==
    /\ pc = "raised"
    /\ exc.cause = "timeout"
    /\ exc.step = "content"

\* the transitions of the documented state machine
DocumentedTransitions ==
    {<<PENDING, IN_PROGRESS>>, <<IN_PROGRESS, REVIEWING>>, <<REVIEWING, REVISING>>,
     <<REVISING, REVIEWING>>, <<REVIEWING, COMPLETED>>}
        \cup {<<st, FAILED>> : st \in {PENDING, IN_PROGRESS, REVIEWING, REVISING}}

\* C8 as stated: the statuses written for a task follow PENDING ->
\* IN_PROGRESS -> {REVIEWING <-> REVISING}* -> COMPLETED with FAILED from any
\* state, COMPLETED being entered from REVIEWING only.
C8_Original ==
    \A i \in 1..(Len(statusWrites) - 1) :
        <<statusWrites[i], statusWrites[i + 1]>> \in DocumentedTransitions

\* C8, amended: the statuses written follow the documented state machine
\* except that completion forced by retry exhaustion enters COMPLETED from
\* REVISING; COMPLETED is entered from REVIEWING exactly when the last
\* critique passed the gate, and never from IN_PROGRESS.
C8_StatusPath ==
    /\ Len(statusWrites) > 0 => statusWrites[1] = PENDING
    /\ \A i \in 1..(Len(statusWrites) - 1) :
          \/ <<statusWrites[i], statusWrites[i + 1]>> \in DocumentedTransitions
          \/ /\ <<statusWrites[i], statusWrites[i + 1]>> = <<REVISING, COMPLETED>>
             /\ retry_count = MaxRetries
    /\ \A i \in 1..(Len(statusWrites) - 1) :
          <<statusWrites[i], statusWrites[i + 1]>> = <<REVIEWING, COMPLETED>> =>
              (critiques # <<>> /\ Last(critiques) >= MinQualityScore)

C8_Witness ==
    /\ pc = "returned"
    /\ Len(statusWrites) >= 2
    /\ statusWrites[Len(statusWrites) - 1] = REVISING
    /\ Last(statusWrites) = COMPLETED

\* C9: an exception raised while gathering evidence is absorbed: the
\* gathering returns the bundle collected so far, the producer's generation
\* calls come next, and only a generation step can make the task FAILED.
C9_EvidenceNonFatal ==
    /\ [][(gather_failed' /\ ~gather_failed) =>
            /\ pc' = "plan"
            /\ research_data' = research_data
            /\ exc' = NoError
            /\ task'.status = PENDING]_vars
    /\ [](pc \in ExceptPcs => exc.step \in GenerationSteps)
    /\ [](task.status = FAILED => exc.step \in GenerationSteps)

C9_Witness ==
    /\ gather_failed
    /\ pc = "returned"
    /\ task.status = COMPLETED

PlaceholdersOnly(queries, outcomes) ==
    Flatten([i \in 1..Len(queries) |->
                IF outcomes[i] = "error" THEN <<Hit(queries[i], "Placeholder")>>
                ELSE <<>>])

-----------------------------------------------------------------------------
(* Evidence gathering: isolation of the sources *)

\* C11: the failure of one evidence source never aborts the others: when the
\* gathering is over every source has been queried, whichever of them failed
\* or raised, and the results collected before a failure are still in the
\* bundle.
C11_SourceIsolation ==
    (pc = "plan") =>
        /\ queried = Sources
        /\ research_data.web_results =
                Flatten(DictValues(MultiQuerySearch(SearchQueries(query), web_outcomes)))

-----------------------------------------------------------------------------
(* multi_query_search: isolation of the queries *)

\* what the batch's entry for position i should be when that query's search
\* is taken on its own
OwnEntry(i) ==
    IF batch.outcomes[i] = "raise" THEN <<>>
    ELSE WebSearchToolSearch(batch.queries[i], batch.outcomes[i])

\* C12 as stated: the result has an entry for every input query, the entry of
\* a query whose search raised is empty and the entries of the other queries
\* are what their own searches returned.
C12_Original ==
    batch.called =>
        \A i \in DOMAIN batch.queries :
            /\ batch.queries[i] \in DOMAIN batch.results_dict.val
            /\ batch.results_dict.val[batch.queries[i]] = OwnEntry(i)

\* C12, amended: an exception of one query's search never fails the batch;
\* the result is keyed by query string, it has an entry for every input
\* query, and the entry is what the last search of that string did: empty if
\* it raised, its own results otherwise, whatever the other queries did.  For
\* pairwise distinct queries this is the claim as stated.
C12_BatchIsolation ==
    batch.called =>
        /\ DOMAIN batch.results_dict.val = Range(batch.queries)
        /\ Range(batch.results_dict.keys) = Range(batch.queries)
        /\ \A i \in DOMAIN batch.queries :
                (\A j \in DOMAIN batch.queries :
                    batch.queries[j] = batch.queries[i] => j <= i)
                    => batch.results_dict.val[batch.queries[i]] = OwnEntry(i)

C12_Witness ==
    /\ batch.called
    /\ Len(batch.queries) = 2
    /\ batch.queries[1] # batch.queries[2]
    /\ batch.outcomes = <<"raise", "hits">>
    /\ batch.results_dict.val[batch.queries[1]] = <<>>
    /\ batch.results_dict.val[batch.queries[2]] # <<>>

-----------------------------------------------------------------------------
(* The structured-response parser *)

\* the positions of a token in a text
Positions(text, c) == {i \in DOMAIN text : text[i] = c}

Least(S) == CHOOSE i \in S : \A j \in S : i <= j

Greatest(S) == CHOOSE i \in S : \A j \in S : j <= i

\* the text has a "{" and a "}" and the last "}" comes after the first "{"
HasSpan(text) ==
    /\ Positions(text, "{") # {}
    /\ Positions(text, "}") # {}
    /\ Greatest(Positions(text, "}")) > Least(Positions(text, "{"))

\* the span from the first "{" to the last "}"
SpanOf(text) ==
    SubSeq(text, Least(Positions(text, "{")), Greatest(Positions(text, "}")))

\* a dict that wraps the raw text
WrapsRawText(v, text) ==
    /\ v.type = "dict"
    /\ \E i \in DOMAIN v.items : v.items[i].value = PyStr(text)

\* C13: the parser never raises, whatever the text: it always returns a
\* mapping, and for a span that does not parse as an object the mapping is
\* the fallback that wraps the raw text.
C13_NeverRaises ==
    structured # NotCalled =>
        /\ structured.kind = "returned"
        /\ structured.value.type = "dict"
        /\ (HasSpan(response_text) /\ ~IsObjectText(SpanOf(response_text)))
                => WrapsRawText(structured.value, response_text)

\* C14: for a text without a span (no "{", no "}", or the last "}" before the
\* first "{") the parser returns the fallback that wraps the raw text and
\* carries a parse-error marker, as it does for a span that fails to parse.
C14_NoSpanFallback ==
    (structured # NotCalled /\ ~HasSpan(response_text)) =>
        /\ structured.kind = "returned"
        /\ WrapsRawText(structured.value, response_text)
        /\ "parse_error" \in DictKeySet(structured.value)

\* the objects json.loads can return, by nesting depth
RECURSIVE Objects(_)
Objects(depth) ==
    IF depth = 0 THEN {PyDict(<<>>), PyDict(<<Item("k", PyInt(1))>>)}
    ELSE Objects(depth - 1) \cup {PyDict(<<Item("n", o)>>) : o \in Objects(depth - 1)}

\* the text of an object
RECURSIVE Dumps(_)
Dumps(o) ==
    IF o.items = <<>> THEN <<"{", "}">>
    ELSE IF o.items[1].key = "k" THEN <<"{", "k", "}">>
    ELSE <<"{", "n">> \o Dumps(o.items[1].value) \o <<"}">>

-----------------------------------------------------------------------------
(* The critic's structured result *)

\* C16: when the structured result the critic gets has no numeric overall
\* score (the parser's raw-text fallback), a MalformedOutput error is raised
\* and the task ends FAILED; the loop never goes on with a substituted score.
C16_MalformedCritique ==
    \A i \in DOMAIN critic_kinds :
        critic_kinds[i] = "unstructured" =>
            /\ pc \in ExceptPcs
            /\ exc.type = "MalformedOutput"
            /\ critiques[i] # DefaultScore

-----------------------------------------------------------------------------
(* The task store failing under a run *)

\* the run is over: conduct_research returned the task or raised
Terminal == pc \in {"returned", "raised"}

\* the loop ended the way the scores alone decide: on the first acceptable
\* score, or after MaxRetries revisions
LoopEndedByScores ==
    \/ /\ QualityAcceptable(Last(critiques))
       /\ Len(produced) = Len(critiques)
    \/ /\ Len(critiques) = MaxRetries
       /\ Len(produced) = MaxRetries + 1
       /\ \A i \in DOMAIN critiques : ~QualityAcceptable(critiques[i])

-----------------------------------------------------------------------------
(* The trace a store failure leaves on the returned task *)

\* the task object says that persistence was degraded during the run
DegradedFlag(t) ==
    /\ "metadata" \in DOMAIN t
    /\ t.metadata.persistence_degraded

\* C18: when a task-store operation failed during the run, the task returned
\* to the caller shows it: its metadata carries the degraded-state flag.
C18_DegradedVisible ==
    (~dbUp /\ pc = "returned") => DegradedFlag(task)

-----------------------------------------------------------------------------
(* The sessions of the evidence sources *)

\* C19: every network session an evidence source acquired during the
\* gathering is closed once the phase is over, on the success path and on
\* every failure path, also when a later generation call of the producer
\* raises: when the run has ended no session is left open.
C19_SessionsReleased ==
    Terminal => \A s \in DOMAIN sessions : sessions[s] # "open"

-----------------------------------------------------------------------------
(* Two runs at once *)

\* what a run gathers when it is the only one and every source answers
FullBundle(topic) ==
    [web_results |-> <<Hit(topic, "DuckDuckGo")>>,
     wikipedia_results |-> <<Hit(topic, "Wikipedia")>>,
     arxiv_results |-> <<Hit(topic, "arXiv")>>]

\* C20: two concurrent runs share no mutable state but the task store, so no
\* action of one run, in particular the release of its evidence-source
\* sessions, changes the evidence, the report or the outcome of the other:
\* with sources that answer every request each run gathers the full bundle
\* and its report is built from it, whatever the other run does.
C20_RunsIsolated ==
    \A r \in DOMAIN runs :
        /\ runs[r].pc.step \in {"generate", "close", "done", "failed"}
                => runs[r].research_data = FullBundle(runs[r].topic)
        /\ runs[r].pc.step \in {"close", "done"}
                => runs[r].report = InitialReport("json", FullBundle(runs[r].topic))

-----------------------------------------------------------------------------
(* Cancellation *)

\* C21: a task abandoned by its caller is honoured at the next phase
\* transition: once the task is abandoned the loop starts no further critique
\* or revise phase (it writes neither REVIEWING nor REVISING again).
C21_Cancellation ==
    [][abandoned =>
        ~(/\ Len(statusWrites') > Len(statusWrites)
          /\ Last(statusWrites') \in {REVIEWING, REVISING})]_vars

-----------------------------------------------------------------------------
(* Polling the task store *)

\* C22: whenever the task store shows the task COMPLETED, a get-report
\* request for it returns a report and never "No report available", also
\* when the completion was forced by retry exhaustion.
C22_CompletedHasReport ==
    db.status = COMPLETED => GetResearchReport(db).code = 200

-----------------------------------------------------------------------------
(* Order of the phases of one run *)

\* how often the run has logged the message text
Said(text) == Cardinality({i \in DOMAIN messages : messages[i].text = text})

\* producer, critic and reviser phases begun and not yet ended, by the
\* messages that open and close each phase
ProducerOpen == Said("Conducting initial research...") - Said("Initial research completed")
CriticOpen ==
    Said("Analyzing report quality and providing feedback...")
        - Said("Critique completed. Overall score")
ReviserOpen ==
    Said("Revising report based on feedback...")
        - Said("Revision completed. Report improved")

\* C23: within one run the produce, critique and revise operations are
\* strictly sequential: at most one of them is in progress at any time, a
\* critique begins only after the report it evaluates has been produced, and
\* a revise begins only after the feedback it consumes has been produced.
C23_PhasesSequential ==
    /\ {ProducerOpen, CriticOpen, ReviserOpen} \subseteq {0, 1}
    /\ ProducerOpen + CriticOpen + ReviserOpen <= 1
    /\ pc \in {"set_reviewing", "critique_log", "critique"} =>
          /\ current_report # NoReport
          /\ current_report = Last(produced)
          /\ Len(critiques) = Len(produced) - 1
    /\ pc \in {"set_revising", "revise_log", "revise"} =>
          /\ feedback # NoFeedback
          /\ feedback.overall_score = Last(critiques)
          /\ Len(critiques) = Len(produced)

\* the second revision is under way, after the second critique
C23_Witness ==
    pc = "revise" /\ revise_calls = 1 /\ Len(critiques) = 2 /\ ReviserOpen = 1

-----------------------------------------------------------------------------
(* Records a completed run leaves in the store *)

\* C24: for a run that ends COMPLETED after r revisions, with the store
\* reachable, exactly r + 1 report records have been persisted (one for no
\* revision, two for one revision) and exactly one feedback record per
\* critique.
C24_RecordCounts ==
    pc = "returned" /\ dbUp =>
        /\ Len(db.reports) = revise_calls + 1
        /\ Len(db.feedback) = Len(critiques)

-----------------------------------------------------------------------------
(* The task object returned to the caller *)

\* C25: when the run returns, the task carries the latest report, the full
\* history of the critic's feedback in append order, and a retry_count equal
\* to the number of revisions performed.
C25_TaskCarriesHistory ==
    pc = "returned" =>
        /\ task.current_report = Last(produced)
        /\ Len(task.feedback_history) = Len(critiques)
        /\ \A i \in DOMAIN task.feedback_history :
              task.feedback_history[i].overall_score = critiques[i]
        /\ task.retry_count = revise_calls

\* C26: conduct_research returns normally only with a task whose status is
\* COMPLETED, whose query is the query it was given and whose current_report
\* is the report the self-correction loop ended with.
C26_ReturnedTask ==
    pc = "returned" =>
        /\ task.status = COMPLETED
        /\ task.query = query
        /\ task.current_report = Last(produced)
        /\ task.current_report.revision_number = revise_calls

\* a run returned after two revisions
C26_Witness ==
    pc = "returned" /\ revise_calls = 2 /\ task.current_report # produced[1]

-----------------------------------------------------------------------------
(* The data models *)

\* C27: writing a ResearchReport to its stored form and constructing it again
\* preserves the order of the sections, the order of the sources within each
\* section, and every credibility and confidence score exactly.
C27_ReportRoundTrip ==
    models.kind = "loaded" =>
        /\ ~IsValidationError(models.result)
        /\ Len(models.result.sections) = Len(models.report.sections)
        /\ \A i \in DOMAIN models.report.sections :
              LET was == models.report.sections[i]
                  is == models.result.sections[i]
              IN  /\ is.confidence_score = was.confidence_score
                  /\ Len(is.sources) = Len(was.sources)
                  /\ \A j \in DOMAIN was.sources :
                        /\ is.sources[j].title = was.sources[j].title
                        /\ is.sources[j].credibility_score
                              = was.sources[j].credibility_score

\* a report of two different sections, one with two different sources and a
\* score that is no multiple of 0.1, has been stored and constructed again
C27_Witness ==
    /\ models.kind = "loaded"
    /\ Len(models.report.sections) = 2
    /\ models.report.sections[1] # models.report.sections[2]
    /\ \E i \in 1..2 :
          /\ Len(models.report.sections[i].sources) = 2
          /\ models.report.sections[i].sources[1] # models.report.sections[i].sources[2]
          /\ models.report.sections[i].confidence_score = 75

\* C28: the score fields are validated at construction: a ResearchSource
\* with a credibility score outside 0.0 .. 1.0 and a CritiqueFeedback with an
\* overall score outside 0.0 .. 10.0 are refused with a validation error;
\* no object holding the value, or an adjusted value, is built.
C28_ScoresValidated ==
    /\ models.kind = "source" /\ "credibility_score" \in DOMAIN models.args
          /\ (models.args.credibility_score < 0 \/ models.args.credibility_score > 100)
          => IsValidationError(models.result)
    /\ models.kind = "feedback"
          /\ (models.args.overall_score < 0 \/ models.args.overall_score > 100)
          => IsValidationError(models.result)

\* a source was asked for with credibility 1.01 and refused
C28_Witness ==
    /\ models.kind = "source"
    /\ "credibility_score" \in DOMAIN models.args
    /\ models.args.credibility_score = 101
    /\ IsValidationError(models.result)

\* C29: a ResearchQuery can be created if and only if its topic is a
\* non-empty string and its depth is an integer from 1 to 5; depth 0, depth 6
\* and an empty topic are each refused.
C29_QueryValidated ==
    models.kind = "query" =>
        (~IsValidationError(models.result)
            <=> /\ "topic" \in DOMAIN models.args
                /\ models.args.topic # ""
                /\ "depth_level" \in DOMAIN models.args =>
                      models.args.depth_level \in 1..5)

-----------------------------------------------------------------------------
(* ResearchCoordinator.initialize *)

\* C30: initialize returns True exactly when the LLM client and the task
\* store both initialise successfully; when either of them fails or raises
\* it returns False, and it never raises.
C30_InitializeResult ==
    pc # "start" =>
        /\ pc # "init_raised"
        /\ pc # "init_failed"
              <=> (init_outcomes.llm = "ok" /\ init_outcomes.db = "ok")
        /\ pc = "init_failed"
              <=> \/ init_outcomes.llm \in {"fail", "raise"}
                  \/ init_outcomes.db \in {"fail", "raise"}

\* the store's initialisation raised after the LLM client's succeeded, and
\* initialize returned False
C30_Witness ==
    pc = "init_failed" /\ init_outcomes.llm = "ok" /\ init_outcomes.db = "raise"

-----------------------------------------------------------------------------
(* Concurrency of the lookups of one run *)

\* C31: within the gathering of one run the lookups against distinct
\* sources run concurrently: while the run's web lookup is awaiting its
\* answer, the Wikipedia lookup of the same run can be started.
C31_SourcesConcurrent ==
    \A r \in RunIds :
        runs[r].pc = At("wait", "web") =>
            ENABLED (SendRequest /\ runs'[r].pc = At("wait", "wikipedia"))

-----------------------------------------------------------------------------
(* Status writes and phases *)

\* how often the status st has been written for the task
Written(st) == Cardinality({i \in DOMAIN statusWrites : statusWrites[i] = st})

\* C32: the status writes are ordered with respect to the phases:
\* IN_PROGRESS is written before the first produce step starts, REVIEWING
\* only after the initial report has been produced and before every critique
\* call, REVISING before every revise call.
C32_StatusBeforePhase ==
    /\ [](Said("Conducting initial research...") > 0 =>
            /\ Len(statusWrites) >= 2
            /\ statusWrites[2] = IN_PROGRESS)
    /\ [](Written(REVIEWING) > 0 => Len(produced) >= 1)
    /\ [][Written(REVIEWING)' > Written(REVIEWING) =>
            /\ Len(produced) >= 1
            /\ current_report = Last(produced)]_vars
    /\ [](pc \in {"critique_log", "critique"} =>
            /\ Last(statusWrites) = REVIEWING
            /\ Written(REVIEWING) = Len(critiques) + 1)
    /\ [](pc \in {"revise_log", "revise"} =>
            /\ Last(statusWrites) = REVISING
            /\ Written(REVISING) = revise_calls + 1)

\* the third revise call is about to be made, after three REVISING writes
C32_Witness ==
    /\ pc = "revise"
    /\ Written(REVISING) = MaxRetries
    /\ Written(REVIEWING) = MaxRetries
    /\ Last(statusWrites) = REVISING

-----------------------------------------------------------------------------
(* The evidence bundle *)

BundleSlots == {"web_results", "wikipedia_results", "arxiv_results"}

IsSequence(x) == DOMAIN x = 1..Len(x)

\* C33: the evidence bundle has the same shape in every outcome of the
\* gathering (all sources succeed, some fail, all fail, or an exception cuts
\* the gathering short): exactly the three slots web_results,
\* wikipedia_results and arxiv_results, each holding a sequence.
C33_BundleShape ==
    /\ DOMAIN research_data = BundleSlots
    /\ \A slot \in BundleSlots : IsSequence(research_data[slot])

\* the Wikipedia lookup raised after the web batch found records: the
\* gathering returned without asking arXiv
C33_Witness ==
    /\ pc = "plan"
    /\ gather_failed
    /\ "arxiv" \notin queried
    /\ research_data.web_results # <<>>
    /\ research_data.arxiv_results = <<>>

-----------------------------------------------------------------------------
(* The end of the loop by retry exhaustion *)

CritiquePcs == {"set_reviewing", "critique_log", "critique", "save_feedback",
                "critique_done_log"}

\* C34: when the loop ends by retry exhaustion the last revised report is
\* taken as final without being critiqued: there were as many critique
\* calls as revise calls (max_retries), and a report passes the quality gate
\* after at most max_retries - 1 revisions.
C34_LastRevisionUncritiqued ==
    /\ retry_count = MaxRetries =>
          /\ pc \notin CritiquePcs
          /\ Len(critiques) = MaxRetries
          /\ revise_calls = MaxRetries
          /\ Len(produced) = Len(critiques) + 1
    /\ pc = "exhausted_log" =>
          /\ current_report = Last(produced)
          /\ \A i \in DOMAIN critiques : critiques[i] < 70
    /\ (pc = "returned" /\ retry_count = MaxRetries) =>
          task.current_report = Last(produced)
    /\ pc = "accept_log" =>
          /\ revise_calls <= MaxRetries - 1
          /\ revise_calls = Len(critiques) - 1

\* the budget is used up: three critiques, four reports
C34_Witness ==
    /\ pc = "exhausted_log"
    /\ Len(critiques) = MaxRetries
    /\ Len(produced) = MaxRetries + 1
    /\ current_report = produced[MaxRetries + 1]

-----------------------------------------------------------------------------
(* After the status COMPLETED *)

\* C35: once the status COMPLETED has been written for a task no later
\* status write changes it: the store refusing the final "research
\* completed" message neither makes the run write FAILED nor makes it raise.
C35_CompletedIsFinal ==
    /\ [][Written(COMPLETED) > 0 => statusWrites' = statusWrites]_vars
    /\ [](Written(COMPLETED) > 0 =>
            /\ Last(statusWrites) = COMPLETED
            /\ Written(FAILED) = 0
            /\ pc \in {"completed_log", "returned"}
            /\ exc = NoError)

\* the store became unreachable after the COMPLETED write: the final message
\* was refused and the run returned
C35_Witness ==
    /\ pc = "returned"
    /\ ~dbUp
    /\ db.status = COMPLETED
    /\ Last(messages).text = "Research completed successfully for"
    /\ Last(db.messages).text # "Research completed successfully for"

-----------------------------------------------------------------------------
(* The first and the last message of a run *)

-----------------------------------------------------------------------------
(* The metadata of a revised report *)

\* C37: after r revisions the returned report's revision_number is r, the
\* loop's retry_count, and its original_feedback_score is the score of the
\* critique that triggered the last revision, which is strictly below the
\* quality threshold of 7.0.
C37_RevisionMetadata ==
    /\ Len(produced) >= 2 =>
          /\ Last(produced).revision_number = Len(produced) - 1
          /\ Last(produced).original_feedback_score = critiques[Len(produced) - 1]
          /\ Last(produced).original_feedback_score < 70
    /\ (pc = "returned" /\ revise_calls >= 1) =>
          /\ task.current_report.revision_number = revise_calls
          /\ task.current_report.revision_number = retry_count
          /\ task.current_report.original_feedback_score = critiques[revise_calls]
          /\ task.current_report.original_feedback_score < 70

\* a run returned after two revisions, the second one triggered by the
\* score 6.9 that followed a 5.0
C37_Witness ==
    /\ pc = "returned"
    /\ critiques = <<50, 69, 85>>
    /\ task.current_report.revision_number = 2
    /\ task.current_report.original_feedback_score = 69

-----------------------------------------------------------------------------
(* One request, one run *)

\* C38: one create-task request (POST /research) starts exactly one
\* conduct_research run and creates exactly one task record in the store.
C38_OneRunPerRequest ==
    /\ route.pc # "none" => (route.runs_started <= 1 /\ route.task_records <= 1)
    /\ (route.pc = "responded" /\ route.response = 200 /\ route.store_up) =>
          (route.runs_started = 1 /\ route.task_records = 1)

-----------------------------------------------------------------------------
(* multi_query_search: the order of the merged results *)

\* position i is the first one of its query string in the batch
FirstOccurrence(i) == \A j \in DOMAIN batch.queries : batch.queries[j] = batch.queries[i] => i <= j

\* the last position of the query string at position i
LastOccurrence(i) ==
    CHOOSE j \in DOMAIN batch.queries :
        /\ batch.queries[j] = batch.queries[i]
        /\ \A k \in DOMAIN batch.queries : batch.queries[k] = batch.queries[i] => k <= j

\* the entries of the first n positions in the order of the queries, one
\* entry per query string
RECURSIVE InQueryOrder(_)
InQueryOrder(n) ==
    IF n = 0 THEN <<>>
    ELSE InQueryOrder(n - 1)
            \o (IF FirstOccurrence(n) THEN OwnEntry(LastOccurrence(n)) ELSE <<>>)

\* the list _gather_research_data makes of the batch's result
MergedWebResults == Flatten(DictValues(batch.results_dict))

\* C39: the merged web results are in the order of the queries (the topic
\* first, then the subtopics as given) and are the same for every order in
\* which the concurrent searches settle; the merge happens only after all of
\* them have settled.
C39_MergeOrder ==
    batch.called =>
        /\ Range(batch.settled) = DOMAIN batch.queries
        /\ MergedWebResults = InQueryOrder(Len(batch.queries))

\* two searches with different outcomes settled in the reverse order and
\* the merge lists the first query's records first
C39_Witness ==
    /\ batch.called
    /\ Len(batch.queries) = 2
    /\ batch.settled = <<2, 1>>
    /\ batch.queries[1] # batch.queries[2]
    /\ batch.outcomes = <<"hits", "error">>
    /\ MergedWebResults = OwnEntry(1) \o OwnEntry(2)

====
